---- MODULE Spec2Model ----
(***************************************************************************)
(* k8s-observability-agent: the agent driver (core.py), the analyze tool   *)
(* executor (tools/registry.py), the live tool executor (tools/live.py),   *)
(* the kubectl client (cluster.py) and the manifest parser (scanner.py).   *)
(*                                                                         *)
(* Spec      the two drivers, run_agent and run_validate_agent             *)
(* SpecTools the two tool executors and the kubectl client, called         *)
(*           directly, the way tests/test_tools.py, tests/test_live_tools  *)
(*           and tests/test_cluster.py call them                           *)
(* SpecScan  scanner._parse_resource applied to one manifest document      *)
(***************************************************************************)
EXTENDS Integers, Sequences, FiniteSets, TLC

VARIABLES
    \* ---- driver (core.py) ----
    mode,              \* "analyze" (run_agent) | "validate" (run_validate_agent)
    api_key,           \* settings.anthropic_api_key is set
    max_agent_turns,   \* settings.max_agent_turns
    pc,                \* "init" | "llm" | "blocks" | "returned" | "raised"
    exc,               \* the exception that left the driver, or None
    exit,              \* which return statement was taken, or None
    turn,              \* the for-loop variable `turn`
    attempt,           \* the for-loop variable `attempt`; 0 outside the retry loop
    llm_calls,         \* turns in which client.messages.create was called
    sleeps,            \* time.sleep arguments of the retry loop in progress
    response,          \* the response of the current turn: content, stop_reason
    idx,               \* blocks of response.content already processed
    assistant_content, \* the local list assistant_content of the current turn
    tool_results,      \* the local list tool_results of the current turn
    executed,          \* tool_use ids in the order execute_tool was called
    messages,          \* the conversation
    plan,              \* the local `plan` / `report`
    result,            \* the value the driver returned
    settings_urls,     \* which of settings.prometheus_url / grafana_url are set
    open_clients,      \* PrometheusClient/GrafanaClient objects opened, not closed
    \* ---- tools (tools/registry.py, tools/live.py, cluster.py) ----
    platform,           \* the scanned Platform the analyze tools read
    allow_writes,       \* ClusterClient.allow_writes
    prometheus,         \* LiveToolExecutor.prometheus: a client, or None
    grafana,            \* LiveToolExecutor.grafana: a client, or None
    cluster_objects,    \* the objects of the Kubernetes cluster
    grafana_dashboards, \* the dashboards Grafana holds
    grafana_folders,    \* the folders Grafana holds
    prometheus_series,  \* the data Prometheus holds
    call,               \* the last call: api, name, input
    kubectl,            \* the kubectl verbs the last call ran as subprocesses
    outcome,            \* what the last call returned or raised
    \* ---- scanner (scanner.py) ----
    doc,                \* the manifest document being parsed
    res,                \* the K8sResource built from it, or None
    \* ---- history store (history.py) ----
    runs,               \* the rows of the table validation_runs
    last_id,            \* the last AUTOINCREMENT id handed out
    clock,              \* the wall clock at the last save_run
    hcall,              \* the last call on the store
    hout,               \* what it returned
    \* ---- repository scan and aggregation (scanner.py, analyzer.py) ----
    repo_files,         \* the manifest files of the repository, in scan order
    iac_k8s,            \* the K8s resources scan_iac rendered from IaC sources
    discovered,         \* what discover_manifest_files returned, or None
    scanned,            \* what _scan_directory returned, or None
    built,              \* the Platform build_platform returned, or None
    \* ---- workload classifier (classifier.py) ----
    cin,                \* the arguments of classify_image
    cout,               \* the Classification it returned, or None
    cprev,              \* the Classification of the input before evidence was added
    \* ---- workload insights (tools/registry.py) ----
    wl,                 \* the workload get_workload_insights is asked about
    insights            \* what the call returned or raised, or None

driverVars == <<mode, api_key, max_agent_turns, settings_urls, pc, exc, exit, turn, attempt,
                llm_calls, sleeps, response, idx,
                assistant_content, tool_results, executed, messages, plan,
                result, open_clients>>

toolVars == <<platform, allow_writes, prometheus, grafana, cluster_objects,
              grafana_dashboards, grafana_folders, prometheus_series, call,
              kubectl, outcome>>

\* The state outside the process that the tools reach.
external == <<cluster_objects, grafana_dashboards, grafana_folders,
              prometheus_series, platform>>

scanVars == <<doc, res>>

histVars == <<runs, last_id, clock, hcall, hout>>

repoVars == <<repo_files, iac_k8s, discovered, scanned, built>>

classVars == <<cin, cout, cprev>>

insightVars == <<wl, insights>>

nonDriverVars == <<toolVars, scanVars, histVars, repoVars, classVars, insightVars>>
nonToolVars == <<driverVars, scanVars, histVars, repoVars, classVars, insightVars>>
nonScanVars == <<driverVars, toolVars, histVars, repoVars, classVars, insightVars>>
nonHistVars == <<driverVars, toolVars, scanVars, repoVars, classVars, insightVars>>
nonRepoVars == <<driverVars, toolVars, scanVars, histVars, classVars, insightVars>>
nonClassVars == <<driverVars, toolVars, scanVars, histVars, repoVars, insightVars>>
nonInsightVars == <<driverVars, toolVars, scanVars, histVars, repoVars, classVars>>

vars == <<driverVars, toolVars, scanVars, histVars, repoVars, classVars, insightVars>>

None == "None"
NoObject == [none |-> TRUE]                              \* None, where an object is expected
NoResponse == [content |-> <<>>, stop_reason |-> None]   \* response = None

(***************************************************************************)
(* Bounds of the model.                                                    *)
(***************************************************************************)
MaxTurns == 3     \* settings.max_agent_turns ranges over 0..MaxTurns
MaxBlocks == 2    \* content blocks in one LLM response

(***************************************************************************)
(* Program constants.                                                      *)
(***************************************************************************)
MAX_RETRIES == 3

RECURSIVE Pow2(_)
Pow2(n) == IF n = 0 THEN 1 ELSE 2 * Pow2(n - 1)

(***************************************************************************)
(* Tool inputs.  A tool input is the JSON object the LLM sent: the model   *)
(* keeps its key set (what **tool_input and inp[...] depend on) and        *)
(* whether its values have the shape the pydantic models accept.           *)
(***************************************************************************)
EmptyInput == [keys |-> {}, conforms |-> TRUE]
BogusInput == [keys |-> {"bogus"}, conforms |-> FALSE]

(***************************************************************************)
(* tools/registry.py: the analyze executor.                                *)
(***************************************************************************)
AnalyzeToolNames == {"list_resources", "get_resource_detail", "get_relationships",
                     "get_platform_summary", "check_health_gaps",
                     "get_workload_insights", "get_iac_resources",
                     "get_aws_resources", "generate_observability_plan"}

\* The keyword parameters of each implementation after `platform`.
AnalyzeParams(name) ==
    CASE name = "list_resources"        -> {"kind", "namespace"}
      [] name = "get_resource_detail"   -> {"qualified_name"}
      [] name = "get_relationships"     -> {"resource"}
      [] name = "get_workload_insights" -> {"qualified_name"}
      [] name = "get_iac_resources"     -> {"source"}
      [] name = "get_aws_resources"     -> {"service"}
      [] OTHER                          -> {}

\* The parameters without a default.
AnalyzeRequired(name) ==
    IF name = "get_resource_detail" THEN {"qualified_name"} ELSE {}

\* Tools called as f(platform, **tool_input).
AnalyzeKwargTools == {"list_resources", "get_resource_detail", "get_relationships",
                      "get_workload_insights", "get_iac_resources",
                      "get_aws_resources"}

\* A result string: which format string built it, for which tool, and its
\* variable part.
Str(kind, tool, detail) == [kind |-> kind, tool |-> tool, detail |-> detail]
NoStr == Str(None, None, None)

Returned(v) == [raised |-> FALSE, value |-> v, error |-> None]
Raised(e)   == [raised |-> TRUE, value |-> NoStr, error |-> e]

\* Variant: a dispatcher without the `case _` arm, a lookup that raises
\* KeyError for a name it does not know.
execute_tool_UnknownRaises(tool_name, tool_input) ==
    IF tool_name \in AnalyzeKwargTools
    THEN IF /\ tool_input.keys \subseteq AnalyzeParams(tool_name)
            /\ AnalyzeRequired(tool_name) \subseteq tool_input.keys
         THEN Returned(Str("text", tool_name, ""))
         ELSE Raised("TypeError")
    ELSE IF tool_name \in {"get_platform_summary", "check_health_gaps"}
    THEN Returned(Str("text", tool_name, ""))
    ELSE IF tool_name = "generate_observability_plan"
    THEN Returned(Str("json.dumps(tool_input)", tool_name, ""))
    ELSE Raised("KeyError")

\* execute_tool(platform, tool_name, tool_input): a string, or an exception.
\* f(platform, **tool_input) raises TypeError on an unexpected or a missing
\* keyword; nothing in execute_tool catches it.  The platform of these calls
\* has no container, so get_workload_insights has nothing to report; what it
\* does for a workload with containers is get_workload_insights below.
execute_tool(tool_name, tool_input) ==
    IF tool_name \in AnalyzeKwargTools
    THEN IF /\ tool_input.keys \subseteq AnalyzeParams(tool_name)
            /\ AnalyzeRequired(tool_name) \subseteq tool_input.keys
         THEN Returned(Str("text", tool_name, ""))
         ELSE Raised("TypeError")
    ELSE IF tool_name \in {"get_platform_summary", "check_health_gaps"}
    THEN Returned(Str("text", tool_name, ""))
    ELSE IF tool_name = "generate_observability_plan"
    THEN Returned(Str("json.dumps(tool_input)", tool_name, ""))
    ELSE Returned(Str("Unknown tool: {tool_name}", tool_name, ""))

(***************************************************************************)
(* cluster.py: the kubectl client.  A call's effect is what it returns or  *)
(* raises (out), the kubectl verbs it ran as subprocesses (ran) and the    *)
(* cluster's objects afterwards.  `kube` is what the subprocess does:      *)
(* "ok", "fail" (non-zero return code), "timeout", "not_found" (no kubectl *)
(* binary), "not_json" and "not_object" (return code 0 with a stdout that  *)
(* is not JSON, or is JSON but not an object).                             *)
(***************************************************************************)
MutatingVerbs == {"apply", "delete"}

PermissionDenied ==
    "Write operations are disabled.  Pass --allow-writes to enable applying changes to the cluster."

ClusterEffect(out, ran, objects) == [out |-> out, ran |-> ran, objects |-> objects]

\* Variant: the write guard does not look at allow_writes.
require_writes_Unchecked == Returned(NoStr)

\* ClusterClient._require_writes: raises PermissionError unless allow_writes.
require_writes ==
    IF ~allow_writes THEN Raised("PermissionError") ELSE Returned(NoStr)

\* ClusterClient.apply_manifest(manifest_yaml, namespace).
apply_manifest(manifest, kube) ==
    IF require_writes.raised
    THEN ClusterEffect(require_writes, {}, cluster_objects)
    ELSE IF kube = "not_found"
    THEN ClusterEffect(Raised("FileNotFoundError"), {"apply"}, cluster_objects)
    ELSE IF kube = "ok"
    THEN ClusterEffect(Returned(Str("CommandResult", "apply", "rc=0")), {"apply"},
                       cluster_objects \cup {manifest})
    ELSE ClusterEffect(Returned(Str("CommandResult", "apply", "rc#0")), {"apply"},
                       cluster_objects)

\* ClusterClient.delete_resource(kind, name, namespace): _require_writes, then
\* _run, which turns a timeout and a missing kubectl into a CommandResult.
delete_resource(object, kube) ==
    IF require_writes.raised
    THEN ClusterEffect(require_writes, {}, cluster_objects)
    ELSE IF kube = "ok"
    THEN ClusterEffect(Returned(Str("CommandResult", "delete", "rc=0")), {"delete"},
                       cluster_objects \ {object})
    ELSE ClusterEffect(Returned(Str("CommandResult", "delete", "rc#0")), {"delete"},
                       cluster_objects)

(***************************************************************************)
(* tools/live.py: the live executor.  The environment of a call, env, is   *)
(* what kubectl does (kube), whether the HTTP API answers ("ok") or the    *)
(* request raises ("error") (http), which monitoring services the cluster  *)
(* lists (found), and whether Grafana creates the folder and imports the   *)
(* dashboard (folder, imported).                                           *)
(***************************************************************************)
LiveToolNames == {"check_cluster_connectivity", "find_monitoring_stack",
                  "get_cluster_resources", "describe_cluster_resource",
                  "get_pod_logs", "get_cluster_events", "check_scrape_targets",
                  "validate_metric_exists", "run_promql_query",
                  "get_prometheus_alerts", "get_prometheus_rules",
                  "list_grafana_dashboards", "check_grafana_datasources",
                  "import_grafana_dashboard", "apply_kubernetes_manifest",
                  "generate_validation_report"}

\* The keys a handler reads as inp["key"].
LiveRequired(name) ==
    CASE name = "get_cluster_resources"     -> {"kind"}
      [] name = "describe_cluster_resource" -> {"kind", "name"}
      [] name = "get_pod_logs"              -> {"pod_name"}
      [] name = "validate_metric_exists"    -> {"metric_names"}
      [] name = "run_promql_query"          -> {"query"}
      [] name = "import_grafana_dashboard"  -> {"dashboard_id"}
      [] name = "apply_kubernetes_manifest" -> {"manifest_yaml"}
      [] OTHER                              -> {}

Client == "client"

LiveEffect(out, ran) ==
    [out |-> out, ran |-> ran, objects |-> cluster_objects,
     prometheus |-> prometheus, grafana |-> grafana,
     dashboards |-> grafana_dashboards, folders |-> grafana_folders]

Text(name) == Returned(Str("text", name, ""))

\* A handler that reads `keys` from inp, runs kubectl `verb` through
\* ClusterClient._run and formats the CommandResult; `parses` says whether it
\* reads the JSON of stdout with data.get.
KubectlReadTool(name, inp, env, verb, parses) ==
    IF ~(LiveRequired(name) \subseteq inp.keys)
    THEN LiveEffect(Raised("KeyError"), {})
    ELSE IF parses /\ env.kube = "not_object"
    THEN LiveEffect(Raised("AttributeError"), {verb})
    ELSE LiveEffect(Text(name), {verb})

\* _tool_check_cluster_connectivity.
tool_check_cluster_connectivity(inp, env) ==
    IF env.kube \in {"fail", "timeout", "not_found"}
    THEN LiveEffect(Returned(Str("FAIL: Cannot reach cluster.", "check_cluster_connectivity", "")),
                    {"version"})
    ELSE LiveEffect(Text("check_cluster_connectivity"), {"version", "config"})

\* PrometheusClient(prom_info["url"]) / GrafanaClient(graf_info["url"]): a
\* client for the in-cluster URL of the service that was found.
InClusterClient == "client(in-cluster url)"

\* A variant of _tool_find_monitoring_stack without the `is None` tests.
tool_find_monitoring_stack_Replacing(inp, env) ==
    IF env.kube = "not_object"
    THEN LiveEffect(Raised("AttributeError"), {"get"})
    ELSE [LiveEffect(Text("find_monitoring_stack"), {"get"}) EXCEPT
             !.prometheus = IF "prometheus" \in env.found
                            THEN InClusterClient ELSE prometheus,
             !.grafana = IF "grafana" \in env.found
                         THEN InClusterClient ELSE grafana]

\* _tool_find_monitoring_stack: a client is created for a service that was
\* found and has no client yet.
tool_find_monitoring_stack(inp, env) ==
    IF env.kube = "not_object"
    THEN LiveEffect(Raised("AttributeError"), {"get"})
    ELSE [LiveEffect(Text("find_monitoring_stack"), {"get"}) EXCEPT
             !.prometheus = IF "prometheus" \in env.found /\ prometheus = None
                            THEN InClusterClient ELSE prometheus,
             !.grafana = IF "grafana" \in env.found /\ grafana = None
                         THEN InClusterClient ELSE grafana]

\* Variant: the HTTP read handlers also create a Grafana folder.
HttpReadTool_Posting(name, inp, env, client, raises) ==
    IF client = None
    THEN LiveEffect(Raised("RuntimeError"), {})
    ELSE [LiveEffect(Text(name), {}) EXCEPT
             !.folders = grafana_folders \cup {"folder_title"}]

\* The handlers that start with _require_prometheus / _require_grafana and
\* then read over HTTP; `raises` says whether a failed request leaves the
\* client method as an exception.
HttpReadTool(name, inp, env, client, raises) ==
    IF client = None
    THEN LiveEffect(Raised("RuntimeError"), {})
    ELSE IF ~(LiveRequired(name) \subseteq inp.keys)
    THEN LiveEffect(Raised("KeyError"), {})
    ELSE IF raises /\ env.http = "error"
    THEN LiveEffect(Raised("HTTPError"), {})
    ELSE LiveEffect(Text(name), {})

\* _tool_import_grafana_dashboard: POST /api/folders when folder_title is
\* given, then the download and POST /api/dashboards/import.
tool_import_grafana_dashboard(inp, env) ==
    IF grafana = None
    THEN LiveEffect(Raised("RuntimeError"), {})
    ELSE IF ~("dashboard_id" \in inp.keys)
    THEN LiveEffect(Raised("KeyError"), {})
    ELSE IF env.http = "error"
    THEN LiveEffect(Raised("HTTPError"), {})
    ELSE [LiveEffect(IF env.imported
                     THEN Returned(Str("Dashboard imported successfully.",
                                       "import_grafana_dashboard", ""))
                     ELSE Returned(Str("Dashboard import FAILED: {error}",
                                       "import_grafana_dashboard", "")),
                     {}) EXCEPT
             !.folders = IF "folder_title" \in inp.keys /\ env.folder
                         THEN grafana_folders \cup {"folder_title"}
                         ELSE grafana_folders,
             !.dashboards = IF env.imported
                            THEN grafana_dashboards \cup {"dashboard_id"}
                            ELSE grafana_dashboards]

\* Variant: the handler does not catch the PermissionError of apply_manifest.
tool_apply_kubernetes_manifest_NoCatch(inp, env) ==
    IF ~("manifest_yaml" \in inp.keys)
    THEN LiveEffect(Raised("KeyError"), {})
    ELSE LET e == apply_manifest("manifest_yaml", env.kube)
         IN  IF e.out.raised
             THEN LiveEffect(e.out, e.ran)
             ELSE [LiveEffect(Returned(Str("result.summary", "apply_kubernetes_manifest",
                                           e.out.value.detail)), e.ran)
                      EXCEPT !.objects = e.objects]

\* _tool_apply_kubernetes_manifest: a PermissionError of apply_manifest is
\* returned as its message.
tool_apply_kubernetes_manifest(inp, env) ==
    IF ~("manifest_yaml" \in inp.keys)
    THEN LiveEffect(Raised("KeyError"), {})
    ELSE LET e == apply_manifest("manifest_yaml", env.kube)
         IN  IF e.out.raised /\ e.out.error = "PermissionError"
             THEN LiveEffect(Returned(Str(PermissionDenied, "", "")), e.ran)
             ELSE IF e.out.raised
             THEN LiveEffect(e.out, e.ran)
             ELSE [LiveEffect(Returned(Str("result.summary", "apply_kubernetes_manifest",
                                           e.out.value.detail)), e.ran)
                      EXCEPT !.objects = e.objects]

\* getattr(self, f"_tool_{tool_name}") applied to tool_input.
Handler(name, inp, env) ==
    CASE name = "check_cluster_connectivity" -> tool_check_cluster_connectivity(inp, env)
      [] name = "find_monitoring_stack"      -> tool_find_monitoring_stack(inp, env)
      [] name = "get_cluster_resources"      -> KubectlReadTool(name, inp, env, "get", TRUE)
      [] name = "describe_cluster_resource"  -> KubectlReadTool(name, inp, env, "describe", FALSE)
      [] name = "get_pod_logs"               -> KubectlReadTool(name, inp, env, "logs", FALSE)
      [] name = "get_cluster_events"         -> KubectlReadTool(name, inp, env, "get", TRUE)
      [] name = "check_scrape_targets"       -> HttpReadTool(name, inp, env, prometheus, TRUE)
      [] name = "validate_metric_exists"     -> HttpReadTool(name, inp, env, prometheus, FALSE)
      [] name = "run_promql_query"           -> HttpReadTool(name, inp, env, prometheus, TRUE)
      [] name = "get_prometheus_alerts"      -> HttpReadTool(name, inp, env, prometheus, TRUE)
      [] name = "get_prometheus_rules"       -> HttpReadTool(name, inp, env, prometheus, TRUE)
      [] name = "list_grafana_dashboards"    -> HttpReadTool(name, inp, env, grafana, TRUE)
      [] name = "check_grafana_datasources"  -> HttpReadTool(name, inp, env, grafana, TRUE)
      [] name = "import_grafana_dashboard"   -> tool_import_grafana_dashboard(inp, env)
      [] name = "apply_kubernetes_manifest"  -> tool_apply_kubernetes_manifest(inp, env)
      [] name = "generate_validation_report" ->
            LiveEffect(Returned(Str("json.dumps(inp)", name, "")), {})

\* LiveToolExecutor.execute(tool_name, tool_input): an exception of the
\* handler becomes the result "Tool '{tool_name}' error: {exc}".
execute(tool_name, tool_input, env) ==
    IF tool_name \notin LiveToolNames
    THEN LiveEffect(Returned(Str("Unknown live tool: {tool_name}", tool_name, "")), {})
    ELSE LET e == Handler(tool_name, tool_input, env)
         IN  IF e.out.raised
             THEN [e EXCEPT !.out = Returned(Str("Tool '{tool_name}' error: {exc}",
                                                 tool_name, e.out.error))]
             ELSE e

(***************************************************************************)
(* scanner.py: one manifest document and the K8sResource built from it.    *)
(* A string is a sequence of words.  A field of the document (data,        *)
(* stringData) is absent, a mapping (a set of <<key, value>> pairs) or     *)
(* some other YAML value; metadata.annotations is a mapping.               *)
(***************************************************************************)
MaxWords == 2    \* words in a secret value

REDACTED == <<"REDACTED">>

Field(shape, items) == [shape |-> shape, items |-> items]
AbsentField == Field("absent", {})

\* s[i..] starts with v.
StartsAt(s, i, v) ==
    /\ i + Len(v) - 1 <= Len(s)
    /\ \A j \in 1..Len(v) : s[i + j - 1] = v[j]

\* The substring test: v in s.
Contains(s, v) == \E i \in 1..(Len(s) + 1) : StartsAt(s, i, v)

\* {k: "REDACTED" for k in doc[field]} when doc[field] is a dict; the field
\* is left out otherwise.
SanitizedField(f) ==
    IF f.shape = "dict"
    THEN Field("dict", {<<kv[1], REDACTED>> : kv \in f.items})
    ELSE AbsentField

\* _sanitize_raw(doc).
sanitize_raw(d) ==
    IF d.kind = "Secret"
    THEN [d EXCEPT !.data = SanitizedField(d.data),
                   !.stringData = SanitizedField(d.stringData)]
    ELSE d

\* _parse_resource(doc, source_file), for a kind that is not a workload, a
\* Service or an Ingress.
parse_resource(d, source_file) ==
    [api_version |-> d.apiVersion,
     kind |-> d.kind,
     name |-> d.metadata.name,
     namespace |-> d.metadata.namespace,
     labels |-> d.metadata.labels,
     annotations |-> d.metadata.annotations,
     source_file |-> source_file,
     raw |-> sanitize_raw(d)]

(***************************************************************************)
(* core.py: what the LLM endpoint can answer.  A response is a list of     *)
(* text and tool_use blocks and a stop_reason; the id of the block at      *)
(* position j of the response of turn t is <<t, j>>.                       *)
(***************************************************************************)
TerminalTool == "generate_observability_plan"

DriverToolNames == {"list_resources", TerminalTool, "nonexistent_tool"}
DriverInputs == {EmptyInput, BogusInput}

ToolUse(n, i) == [type |-> "tool_use", name |-> n, input |-> i]

Blocks == {[type |-> "text"], ToolUse("nonexistent_tool", EmptyInput)} \cup
          {ToolUse(n, i) : n \in {"list_resources", TerminalTool}, i \in DriverInputs}

StopReasons == {"end_turn", "tool_use", "max_tokens"}

BoundedSeq(S, n) == UNION {[1..m -> S] : m \in 0..n}

Responses == {[content |-> c, stop_reason |-> s] :
                 c \in BoundedSeq(Blocks, MaxBlocks), s \in StopReasons}

(***************************************************************************)
(* core.py: the objects the drivers return.                                *)
(***************************************************************************)
\* _parse_observability_plan(raw): the plan holds the fields of the input.
ParsedPlan(raw) ==
    [platform_summary |-> "raw.platform_summary",
     recommendations |-> <<"raw.recommendations">>,
     parsed |-> TRUE, raw |-> raw]

\* ObservabilityPlan(platform_summary=..., recommendations=[...]).
DegradedPlan(summary, recs) ==
    [platform_summary |-> summary, recommendations |-> recs,
     parsed |-> FALSE, raw |-> EmptyInput]

CouldNotReachPlan ==
    DegradedPlan("Agent could not reach the Anthropic API.",
                 <<"Run 'k8s-obs scan' for offline structural analysis.">>)
ApiErrorPlan ==
    DegradedPlan("Anthropic API error: {exc.message}",
                 <<"Check your API key and account status, then retry.">>)
RetriesExhaustedPlan ==
    DegradedPlan("Agent exhausted retries contacting the Anthropic API.",
                 <<"Run 'k8s-obs scan' for offline structural analysis.">>)
\* Variant: the plan of the unstructured exit without its recommendation.
UnstructuredPlan_NoAdvice ==
    DegradedPlan("Agent did not produce a structured plan.", <<>>)
UnstructuredPlan ==
    DegradedPlan("Agent did not produce a structured plan.",
                 <<"Review the agent output above for recommendations.">>)
TurnLimitPlan ==
    DegradedPlan("Agent did not complete within the turn limit.", <<>>)

\* A message's content is a reference to the list object it was built from:
\* the initial prompt, or the assistant_content / tool_results list of a turn.
\* The lists of the latest turn are the variables of the same name.
Ref(list, t) == [list |-> list, turn |-> t]

InitialMessages == <<[role |-> "user", content |-> Ref("initial", 0)]>>

(***************************************************************************)
(* core.py: run_agent.                                                     *)
(***************************************************************************)
Return(value, site) ==
    /\ pc' = "returned"
    /\ result' = value
    /\ exit' = site

\* The `else` of `for turn in range(1, settings.max_agent_turns + 1)`.
TurnLimit ==
    /\ plan' = IF plan = NoObject THEN TurnLimitPlan ELSE plan
    /\ Return(plan', "turn_limit")

\* The first value of `turn`, or the loop's `else` when the range is empty.
FirstTurn == 1
LastTurn == max_agent_turns

RunAgentStart ==
    /\ pc = "init"
    /\ mode = "analyze"
    /\ IF ~api_key
       THEN /\ pc' = "raised"
            /\ exc' = "ValueError"
            /\ UNCHANGED <<messages, turn, attempt, plan, result, exit>>
       ELSE /\ messages' = InitialMessages
            /\ exc' = exc
            /\ IF FirstTurn <= LastTurn
               THEN /\ turn' = FirstTurn
                    /\ attempt' = 1
                    /\ pc' = "llm"
                    /\ UNCHANGED <<plan, result, exit>>
               ELSE /\ TurnLimit
                    /\ UNCHANGED <<turn, attempt>>
    /\ UNCHANGED <<mode, api_key, max_agent_turns, settings_urls, llm_calls, sleeps, response, idx, assistant_content,
                   tool_results, executed, open_clients>>
    /\ UNCHANGED nonDriverVars

\* client.messages.create(...) is called: one attempt of the retry loop.
Attempted ==
    llm_calls' = IF attempt = 1 THEN llm_calls + 1 ELSE llm_calls

\* client.messages.create returns: `break` leaves the retry loop, whose
\* variable is not read again before the next turn sets it.
LLMResponse(r) ==
    /\ pc = "llm"
    /\ Attempted
    /\ response' = r
    /\ attempt' = 0
    /\ sleeps' = <<>>
    /\ idx' = 0
    /\ assistant_content' = <<>>
    /\ tool_results' = <<>>
    /\ executed' = <<>>
    /\ pc' = "blocks"
    /\ UNCHANGED <<mode, api_key, max_agent_turns, settings_urls, exc, exit,
                   turn, messages, plan, result, open_clients>>
    /\ UNCHANGED nonDriverVars

\* anthropic.RateLimitError: sleep 2**attempt, then the next attempt; after the
\* last attempt the inner loop ends with response None.
LLMRateLimitError ==
    /\ pc = "llm"
    /\ Attempted
    /\ sleeps' = Append(sleeps, Pow2(attempt))
    /\ IF attempt < MAX_RETRIES
       THEN /\ attempt' = attempt + 1
            /\ UNCHANGED <<pc, result, exit>>
       ELSE /\ Return(RetriesExhaustedPlan, "retries_exhausted")
            /\ UNCHANGED attempt
    /\ UNCHANGED <<mode, api_key, max_agent_turns, settings_urls, exc, turn,
                   response, idx, assistant_content, tool_results, executed,
                   messages, plan, open_clients>>
    /\ UNCHANGED nonDriverVars

\* Variant: the connection-error branch retries at once, without time.sleep.
LLMConnectionError_NoBackoff ==
    /\ pc = "llm"
    /\ Attempted
    /\ IF attempt < MAX_RETRIES
       THEN /\ attempt' = attempt + 1
            /\ UNCHANGED <<pc, result, exit, sleeps>>
       ELSE /\ Return(CouldNotReachPlan, "connection_error")
            /\ UNCHANGED <<attempt, sleeps>>
    /\ UNCHANGED <<mode, api_key, max_agent_turns, settings_urls, exc, turn,
                   response, idx, assistant_content, tool_results, executed,
                   messages, plan, open_clients>>
    /\ UNCHANGED nonDriverVars

\* anthropic.APIConnectionError.
LLMConnectionError ==
    /\ pc = "llm"
    /\ Attempted
    /\ IF attempt < MAX_RETRIES
       THEN /\ sleeps' = Append(sleeps, Pow2(attempt))
            /\ attempt' = attempt + 1
            /\ UNCHANGED <<pc, result, exit>>
       ELSE /\ Return(CouldNotReachPlan, "connection_error")
            /\ UNCHANGED <<attempt, sleeps>>
    /\ UNCHANGED <<mode, api_key, max_agent_turns, settings_urls, exc, turn,
                   response, idx, assistant_content, tool_results, executed,
                   messages, plan, open_clients>>
    /\ UNCHANGED nonDriverVars

\* Variant: the status-error branch waits 2**attempt before it returns.
LLMStatusError_Backoff ==
    /\ pc = "llm"
    /\ Attempted
    /\ sleeps' = Append(sleeps, Pow2(attempt))
    /\ Return(ApiErrorPlan, "status_error")
    /\ UNCHANGED <<mode, api_key, max_agent_turns, settings_urls, exc, turn,
                   attempt, response, idx, assistant_content,
                   tool_results, executed, messages, plan, open_clients>>
    /\ UNCHANGED nonDriverVars

\* anthropic.APIStatusError (other than a rate limit).
LLMStatusError ==
    /\ pc = "llm"
    /\ Attempted
    /\ Return(ApiErrorPlan, "status_error")
    /\ UNCHANGED <<mode, api_key, max_agent_turns, settings_urls, exc, turn,
                   attempt, sleeps, response, idx, assistant_content,
                   tool_results, executed, messages, plan, open_clients>>
    /\ UNCHANGED nonDriverVars

\* The index of the next block of `for block in response.content`.
NextBlock == idx + 1

ProcessTextBlock ==
    /\ pc = "blocks"
    /\ idx < Len(response.content)
    /\ response.content[NextBlock].type = "text"
    /\ assistant_content' = Append(assistant_content, [type |-> "text"])
    /\ idx' = idx + 1
    /\ UNCHANGED <<mode, api_key, max_agent_turns, settings_urls, pc, exc, exit,
                   turn, attempt, llm_calls, sleeps, response,
                   tool_results, executed, messages, plan, result, open_clients>>
    /\ UNCHANGED nonDriverVars

ProcessToolUseBlock ==
    /\ pc = "blocks"
    /\ idx < Len(response.content)
    /\ response.content[NextBlock].type = "tool_use"
    /\ LET block == response.content[NextBlock]
           id == <<turn, NextBlock>>
           r == execute_tool(block.name, block.input)
       IN  /\ assistant_content' =
                 Append(assistant_content,
                        [type |-> "tool_use", id |-> id, name |-> block.name,
                         input |-> block.input])
           /\ executed' = Append(executed, id)
           /\ IF r.raised
              THEN /\ pc' = "raised"
                   /\ exc' = r.error
                   /\ UNCHANGED <<tool_results, plan, idx>>
              ELSE /\ tool_results' =
                        Append(tool_results,
                               [type |-> "tool_result", tool_use_id |-> id,
                                content |-> r.value])
                   /\ plan' = IF block.name = TerminalTool /\ block.input.conforms
                              THEN ParsedPlan(block.input)
                              ELSE plan
                   /\ idx' = idx + 1
                   /\ UNCHANGED <<pc, exc>>
    /\ UNCHANGED <<mode, api_key, max_agent_turns, settings_urls, exit, turn,
                   attempt, llm_calls, sleeps, response, messages,
                   result, open_clients>>
    /\ UNCHANGED nonDriverVars

\* Variant: the tool results are appended before the assistant message.
TurnMessages_ResultsFirst ==
    (IF tool_results # <<>>
     THEN <<[role |-> "user", content |-> Ref("tool_results", turn)]>>
     ELSE <<>>)
    \o <<[role |-> "assistant", content |-> Ref("assistant_content", turn)]>>

\* What the turn appends to the conversation.
TurnMessages ==
    <<[role |-> "assistant", content |-> Ref("assistant_content", turn)]>>
    \o (IF tool_results # <<>>
        THEN <<[role |-> "user", content |-> Ref("tool_results", turn)]>>
        ELSE <<>>)

\* After the last block: append the messages, then the stop conditions, then
\* the next turn or the loop's `else`.  The next turn starts with
\* response = None and fresh assistant_content and tool_results lists; the
\* lists of the finished turn live on only as the content of its messages.
EndOfContent ==
    /\ pc = "blocks"
    /\ idx = Len(response.content)
    /\ messages' = messages \o TurnMessages
    /\ IF response.stop_reason = "end_turn" /\ plan # NoObject
       THEN /\ Return(plan, "completed")
            /\ UNCHANGED <<plan, turn, attempt, sleeps, response, idx,
                           assistant_content, tool_results, executed>>
       ELSE IF response.stop_reason = "end_turn" /\ tool_results = <<>>
       THEN /\ plan' = IF plan = NoObject THEN UnstructuredPlan ELSE plan
            /\ Return(plan', "unstructured")
            /\ UNCHANGED <<turn, attempt, sleeps, response, idx,
                           assistant_content, tool_results, executed>>
       ELSE IF turn < LastTurn
       THEN /\ turn' = turn + 1
            /\ attempt' = 1
            /\ sleeps' = <<>>
            /\ response' = NoResponse
            /\ idx' = 0
            /\ assistant_content' = <<>>
            /\ tool_results' = <<>>
            /\ executed' = <<>>
            /\ pc' = "llm"
            /\ UNCHANGED <<plan, result, exit>>
       ELSE /\ TurnLimit
            /\ UNCHANGED <<turn, attempt, sleeps, response, idx,
                           assistant_content, tool_results, executed>>
    /\ UNCHANGED <<mode, api_key, max_agent_turns, settings_urls, exc,
                   llm_calls, open_clients>>
    /\ UNCHANGED nonDriverVars

(***************************************************************************)
(* core.py: run_validate_agent.  It builds the cluster, Prometheus and     *)
(* Grafana clients and then calls LiveToolExecutor(cluster=, prometheus=,  *)
(* grafana=, ca_cert=); LiveToolExecutor.__init__ (tools/live.py) takes    *)
(* cluster, prometheus and grafana only, so the call raises TypeError      *)
(* before the loop starts and before anything closes the clients.          *)
(***************************************************************************)
LiveToolExecutorInitParams == {"cluster", "prometheus", "grafana"}
ValidateExecutorKeywords == {"cluster", "prometheus", "grafana", "ca_cert"}

RunValidateAgentStart ==
    /\ pc = "init"
    /\ mode = "validate"
    /\ IF ~api_key
       THEN /\ exc' = "ValueError"
            /\ UNCHANGED open_clients
       ELSE /\ open_clients' = settings_urls
            /\ ValidateExecutorKeywords \ LiveToolExecutorInitParams # {}
            /\ exc' = "TypeError"
    /\ pc' = "raised"
    /\ UNCHANGED <<mode, api_key, max_agent_turns, settings_urls, exit, turn,
                   attempt, llm_calls, sleeps, response, idx,
                   assistant_content, tool_results, executed, messages, plan,
                   result>>
    /\ UNCHANGED nonDriverVars

(***************************************************************************)
(* The drivers.                                                            *)
(***************************************************************************)
\* The locals of a driver before its first statement.
DriverLocalsInit ==
    /\ exc = None
    /\ exit = None
    /\ turn = 0
    /\ attempt = 0
    /\ llm_calls = 0
    /\ sleeps = <<>>
    /\ response = NoResponse
    /\ idx = 0
    /\ assistant_content = <<>>
    /\ tool_results = <<>>
    /\ executed = <<>>
    /\ messages = <<>>
    /\ plan = NoObject
    /\ result = NoObject
    /\ open_clients = {}

InitDriver ==
    /\ mode \in {"analyze", "validate"}
    /\ api_key \in BOOLEAN
    /\ max_agent_turns \in 0..MaxTurns
    /\ settings_urls \in
          IF mode = "validate" THEN SUBSET {"prometheus", "grafana"} ELSE {{}}
    /\ pc = "init"
    /\ DriverLocalsInit

\* No driver runs.
NoDriver ==
    /\ mode = None
    /\ api_key = FALSE
    /\ max_agent_turns = 0
    /\ settings_urls = {}
    /\ pc = None
    /\ DriverLocalsInit

NextDriver ==
    \/ RunAgentStart
    \/ RunValidateAgentStart
    \/ \E r \in Responses : LLMResponse(r)
    \/ LLMRateLimitError
    \/ LLMConnectionError
    \/ LLMStatusError
    \/ ProcessTextBlock
    \/ ProcessToolUseBlock
    \/ EndOfContent

(***************************************************************************)
(* The tools, called directly.                                             *)
(***************************************************************************)
NoCall == [api |-> None, name |-> None, input |-> EmptyInput]
NoOutcome == Returned(NoStr)

ThePlatform == [resources |-> {"default/Deployment/web"}]

InitTools ==
    /\ platform = ThePlatform
    /\ allow_writes \in BOOLEAN
    /\ prometheus \in {None, Client}
    /\ grafana \in {None, Client}
    /\ cluster_objects = {"existing"}
    /\ grafana_dashboards = {}
    /\ grafana_folders = {}
    /\ prometheus_series = {"up"}
    /\ call = NoCall
    /\ kubectl = {}
    /\ outcome = NoOutcome

\* No tool is called outside a driver.
NoTools ==
    /\ platform = ThePlatform
    /\ allow_writes = FALSE
    /\ prometheus = None
    /\ grafana = None
    /\ cluster_objects = {"existing"}
    /\ grafana_dashboards = {}
    /\ grafana_folders = {}
    /\ prometheus_series = {"up"}
    /\ call = NoCall
    /\ kubectl = {}
    /\ outcome = NoOutcome

WithKeys(k) == [keys |-> k, conforms |-> TRUE]

AnalyzeCallNames == AnalyzeToolNames \cup {"nonexistent_tool"}
AnalyzeInputs(name) == {EmptyInput, BogusInput, WithKeys(AnalyzeParams(name))}

LiveCallNames == LiveToolNames \cup {"nonexistent_tool"}
LiveOptional(name) == IF name = "import_grafana_dashboard" THEN {"folder_title"} ELSE {}
LiveInputs(name) == {EmptyInput, BogusInput, WithKeys(LiveRequired(name)),
                     WithKeys(LiveRequired(name) \cup LiveOptional(name))}

Env(kube, http, found, folder, imported) ==
    [kube |-> kube, http |-> http, found |-> found, folder |-> folder,
     imported |-> imported]

\* What the world outside can do during a call of the tool.
EnvFor(name) ==
    CASE name \in {"check_cluster_connectivity", "get_cluster_resources",
                   "describe_cluster_resource", "get_pod_logs", "get_cluster_events"} ->
            {Env(k, "ok", {}, FALSE, FALSE) :
                k \in {"ok", "fail", "timeout", "not_found", "not_json", "not_object"}}
      [] name = "find_monitoring_stack" ->
            {Env("ok", "ok", f, FALSE, FALSE) : f \in SUBSET {"prometheus", "grafana"}}
            \cup {Env(k, "ok", {}, FALSE, FALSE) : k \in {"fail", "not_object"}}
      [] name = "apply_kubernetes_manifest" ->
            {Env(k, "ok", {}, FALSE, FALSE) : k \in {"ok", "fail", "timeout", "not_found"}}
      [] name = "import_grafana_dashboard" ->
            {Env("ok", "ok", {}, f, i) : f \in BOOLEAN, i \in BOOLEAN}
            \cup {Env("ok", "error", {}, FALSE, FALSE)}
      [] name \in {"generate_validation_report", "nonexistent_tool"} ->
            {Env("ok", "ok", {}, FALSE, FALSE)}
      [] OTHER ->
            {Env("ok", h, {}, FALSE, FALSE) : h \in {"ok", "error"}}

\* tests/test_tools.py: execute_tool(platform, name, input).
CallExecuteTool(name, inp) ==
    /\ call' = [api |-> "execute_tool", name |-> name, input |-> inp]
    /\ outcome' = execute_tool(name, inp)
    /\ kubectl' = {}
    /\ UNCHANGED <<platform, allow_writes, prometheus, grafana, cluster_objects,
                   grafana_dashboards, grafana_folders, prometheus_series>>
    /\ UNCHANGED nonToolVars

\* tests/test_live_tools.py: executor.execute(name, input).
CallLiveExecute(name, inp, env) ==
    \E e \in {execute(name, inp, env)} :
        /\ call' = [api |-> "LiveToolExecutor.execute", name |-> name, input |-> inp]
        /\ outcome' = e.out
        /\ kubectl' = e.ran
        /\ prometheus' = e.prometheus
        /\ grafana' = e.grafana
        /\ cluster_objects' = e.objects
        /\ grafana_dashboards' = e.dashboards
        /\ grafana_folders' = e.folders
        /\ UNCHANGED <<platform, allow_writes, prometheus_series>>
        /\ UNCHANGED nonToolVars

\* tests/test_cluster.py: client.apply_manifest(...).
CallApplyManifest(kube) ==
    \E e \in {apply_manifest("manifest_yaml", kube)} :
        /\ call' = [api |-> "ClusterClient", name |-> "apply_manifest", input |-> EmptyInput]
        /\ outcome' = e.out
        /\ kubectl' = e.ran
        /\ cluster_objects' = e.objects
        /\ UNCHANGED <<platform, allow_writes, prometheus, grafana,
                       grafana_dashboards, grafana_folders, prometheus_series>>
        /\ UNCHANGED nonToolVars

\* tests/test_cluster.py: client.delete_resource(...).
CallDeleteResource(object, kube) ==
    \E e \in {delete_resource(object, kube)} :
        /\ call' = [api |-> "ClusterClient", name |-> "delete_resource", input |-> EmptyInput]
        /\ outcome' = e.out
        /\ kubectl' = e.ran
        /\ cluster_objects' = e.objects
        /\ UNCHANGED <<platform, allow_writes, prometheus, grafana,
                       grafana_dashboards, grafana_folders, prometheus_series>>
        /\ UNCHANGED nonToolVars

\* core.py 637-642: what the loop of run_validate_agent does with one
\* tool_use block.  A live name goes to executor.execute; for any other name
\* the result is a fixed sentence and no executor is called.
RouteValidateToolUse(name, inp, env) ==
    IF name \in LiveToolNames
    THEN CallLiveExecute(name, inp, env)
    ELSE /\ call' = [api |-> "run_validate_agent", name |-> name, input |-> inp]
         /\ outcome' = Returned(Str("Tool '{block.name}' requires a scanned platform (use 'analyze' first).",
                                    name, ""))
         /\ kubectl' = {}
         /\ UNCHANGED <<platform, allow_writes, prometheus, grafana, cluster_objects,
                        grafana_dashboards, grafana_folders, prometheus_series>>
         /\ UNCHANGED nonToolVars

NextTools ==
    \/ \E name \in AnalyzeCallNames : \E inp \in AnalyzeInputs(name) :
          CallExecuteTool(name, inp)
    \/ \E name \in AnalyzeCallNames \cup LiveToolNames :
          \E inp \in {WithKeys(LiveRequired(name)), BogusInput} \ (IF name \in LiveToolNames THEN {BogusInput} ELSE {}) :
             \E env \in {e \in EnvFor(name) : e.kube = "ok" /\ e.http = "ok"} :
                RouteValidateToolUse(name, inp, env)
    \/ \E name \in LiveCallNames : \E inp \in LiveInputs(name) : \E env \in EnvFor(name) :
          CallLiveExecute(name, inp, env)
    \/ \E kube \in {"ok", "fail", "timeout", "not_found"} : CallApplyManifest(kube)
    \/ \E object \in {"existing", "manifest_yaml"} :
          \E kube \in {"ok", "fail", "timeout", "not_found"} :
             CallDeleteResource(object, kube)

(***************************************************************************)
(* The scanner, applied to the documents of a manifest file.               *)
(***************************************************************************)
SecretWords == {"hunter2", "swordfish"}
SecretValues == UNION {[1..n -> SecretWords] : n \in 1..MaxWords}

DataFields ==
    {AbsentField, Field("scalar", {<<"", <<"hunter2">>>>})}
    \cup {Field("dict", {<<"password", v>>}) : v \in SecretValues}
    \cup {Field("dict", {<<"password", <<"hunter2">>>>, <<"token", <<"swordfish">>>>})}

Annotations ==
    {{}, {<<"team", <<"payments">>>>},
     {<<"kubectl.kubernetes.io/last-applied-configuration",
        <<"{data:{password:", "hunter2", "}}">>>>}}

Docs ==
    {[apiVersion |-> <<"v1">>, kind |-> k,
      metadata |-> [name |-> <<"db-credentials">>, namespace |-> <<"default">>,
                    labels |-> {}, annotations |-> a],
      data |-> dt, stringData |-> sd] :
        k \in {"Secret", "ConfigMap"}, a \in Annotations,
        dt \in DataFields, sd \in DataFields}

InitScan ==
    /\ doc \in Docs
    /\ res = NoObject

\* No manifest is being parsed.
NoScan ==
    /\ doc = NoObject
    /\ res = NoObject

\* parse_manifest_file: resources.append(_parse_resource(doc, rel)).
ParseResource ==
    /\ res = NoObject
    /\ res' = parse_resource(doc, <<"secret.yaml">>)
    /\ UNCHANGED doc
    /\ UNCHANGED nonScanVars

\* parse_manifest_file: the next document of `for doc in docs`.
NextDocument(d) ==
    /\ res # NoObject
    /\ doc' = d
    /\ res' = NoObject
    /\ UNCHANGED nonScanVars

NextScan ==
    \/ ParseResource
    \/ \E d \in Docs : NextDocument(d)

(***************************************************************************)
(* history.py: the validation history store.  The table validation_runs is *)
(* a set of rows.  id is AUTOINCREMENT; run_at is the wall clock read by   *)
(* save_run, datetime.now(timezone.utc).isoformat(), whose text order is   *)
(* the order of the instants.  The clock is taken to advance between two   *)
(* save_run calls, as it does between two validation runs and between the  *)
(* calls of tests/test_history.py: every row has its own run_at, larger    *)
(* than the run_at of the rows saved before it.                            *)
(***************************************************************************)
MaxSaves == 3        \* save_run calls made directly
MaxKeep == 2         \* prune's `keep` when called directly ranges over 0..MaxKeep
MaxRuns == 22        \* validation runs that reach their end
MaxOtherRuns == 1    \* of them, runs on the second cluster context

\* history.prune(cluster_context, keep=20) at the end of run_validate_agent.
KEEP == 20

\* cluster_context = settings.kube_context or "default".
Contexts == {"kind-kind", "default"}

Check(name, status) == [name |-> name, status |-> status]

ValidationReport(summary, checks) ==
    [cluster_summary |-> summary, checks |-> checks]

\* The reports saved: no check, one passing check, a passing and a failing
\* check, a warning and a failing check.
Reports ==
    {ValidationReport("Agent did not complete within the turn limit.", <<>>),
     ValidationReport("up", <<Check("scrape-targets", "pass")>>),
     ValidationReport("up", <<Check("scrape-targets", "pass"),
                              Check("node-exporter-metrics", "fail")>>),
     ValidationReport("up", <<Check("alertmanager", "warn"),
                              Check("scrape-targets", "fail")>>)}

NoRow == [id |-> 0]
NoHistoryCall == [op |-> None]
NoHistoryResult == [none |-> TRUE]

RowsOf(table, cluster_context) ==
    {r \in table : r.cluster_context = cluster_context}

RunsOf(cluster_context) == RowsOf(runs, cluster_context)

\* SELECT COUNT(*) FROM validation_runs WHERE cluster_context = ?
run_count(cluster_context) == Cardinality(RunsOf(cluster_context))

\* The rows of R that ORDER BY run_at DESC puts first, and last.
Newest(R) == {r \in R : \A o \in R : o.run_at <= r.run_at}
Oldest(R) == {r \in R : \A o \in R : r.run_at <= o.run_at}

\* Variant: the query without its WHERE cluster_context = ? clause.
last_run_AnyContext(table, cluster_context) ==
    IF table = {} THEN NoRow ELSE CHOOSE r \in Newest(table) : TRUE

\* ... WHERE cluster_context = ? ORDER BY run_at DESC LIMIT 1, or None.  No
\* two rows have the same run_at, so the newest row is one row.
last_run(table, cluster_context) ==
    IF RowsOf(table, cluster_context) = {} THEN NoRow
    ELSE CHOOSE r \in Newest(RowsOf(table, cluster_context)) : TRUE

\* The rows that ... ORDER BY run_at DESC LIMIT keep selects from R.
RECURSIVE MostRecent(_, _)
MostRecent(R, keep) ==
    IF Cardinality(R) <= keep THEN R
    ELSE MostRecent(R \ Oldest(R), keep)

\* Variant: DELETE ... WHERE id NOT IN (...) without `cluster_context = ? AND`.
prune_AllContexts(table, cluster_context, keep) ==
    MostRecent(RowsOf(table, cluster_context), keep)

\* The table after prune(cluster_context, keep): the rows of other contexts
\* and the `keep` most recent rows of this one.
prune(table, cluster_context, keep) ==
    (table \ RowsOf(table, cluster_context))
    \cup MostRecent(RowsOf(table, cluster_context), keep)

\* The row save_run inserts.
NewRow(cluster_context, report, now) ==
    [id |-> last_id + 1,
     cluster_context |-> cluster_context,
     run_at |-> now,
     cluster_summary |-> report.cluster_summary,
     checks_json |-> report.checks]

\* A line of text: the format string that built it and its variable part.
Line(kind, detail) == [kind |-> kind, detail |-> detail]

IsIssue(c) == c.status \in {"fail", "warn"}

\* Variant: the digest lists the issues by status only, without their names.
IssueLine_NoName(c) ==
    Line(IF c.status = "fail" THEN "  [FAIL] {name}: {message}"
                              ELSE "  [WARN] {name}: {message}", "")

\* f"  [{status}] {c.get('name', '?')}: {c.get('message', '')}"
IssueLine(c) ==
    Line(IF c.status = "fail" THEN "  [FAIL] {name}: {message}"
                              ELSE "  [WARN] {name}: {message}", c.name)

\* previous_run_summary, from the row last_run returned: "" when there is no
\* row, else the header, the cluster summary, the result counts and the
\* failing and warning checks, and the closing instruction.
previous_run_summary(raw) ==
    IF raw = NoRow THEN <<>>
    ELSE LET checks == raw.checks_json
             failing == SelectSeq(checks, IsIssue)
         IN  <<Line("=== Previous validation run ({run_at}) ===", raw.run_at),
               Line("Cluster summary: {cluster_summary}", raw.cluster_summary)>>
             \o (IF checks # <<>>
                 THEN <<Line("Results: {passed} passed, {failed} failed, {warned} warnings",
                             "")>>
                      \o (IF failing # <<>>
                          THEN <<Line("Issues found last time:", "")>>
                               \o [i \in DOMAIN failing |-> IssueLine(failing[i])]
                          ELSE <<>>)
                 ELSE <<>>)
             \o <<Line("Re-check the previously failing items first. ...", "")>>

\* _build_validate_messages(plan, ..., previous_run_summary=...), without a
\* plan and without monitoring URLs.
build_validate_messages(previous_summary) ==
    <<[role |-> "user",
       content |->
          <<Line("I need you to validate the observability setup ...", "")>>
          \o (IF previous_summary # <<>>
              THEN <<Line("IMPORTANT - A previous validation run is available. ...", "")>>
                   \o previous_summary
              ELSE <<>>)
          \o <<Line("No monitoring URLs were provided. ...", ""),
               Line("Please: ...", "")>>]>>

\* The wall clock at the next save_run.
Now == clock + 1

\* history.save_run(cluster_context, report), called directly.
SaveRun(cluster_context, report) ==
    /\ last_id < MaxSaves
    /\ runs' = runs \cup {NewRow(cluster_context, report, Now)}
    /\ last_id' = last_id + 1
    /\ clock' = Now
    /\ hcall' = [op |-> "save_run", cluster_context |-> cluster_context,
                 report |-> report]
    /\ hout' = [run_id |-> last_id + 1]
    /\ UNCHANGED nonHistVars

\* history.prune(cluster_context, keep), called directly.
Prune(cluster_context, keep) ==
    /\ runs' = prune(runs, cluster_context, keep)
    /\ hcall' = [op |-> "prune", cluster_context |-> cluster_context,
                 keep |-> keep]
    /\ hout' = [deleted |-> Cardinality(runs) - Cardinality(runs')]
    /\ UNCHANGED <<last_id, clock>>
    /\ UNCHANGED nonHistVars

\* history.last_run(cluster_context), history.run_count(cluster_context).
LastRun(cluster_context) ==
    /\ hcall' = [op |-> "last_run", cluster_context |-> cluster_context]
    /\ hout' = [row |-> last_run(runs, cluster_context),
                count |-> run_count(cluster_context)]
    /\ UNCHANGED <<runs, last_id, clock>>
    /\ UNCHANGED nonHistVars

\* run_validate_agent, "Load previous run from history" and the building of
\* the initial messages, with the history store given.
LoadPreviousRun(cluster_context) ==
    /\ hcall' = [op |-> "load_previous_run", cluster_context |-> cluster_context]
    /\ \E previous_summary \in {previous_run_summary(last_run(runs, cluster_context))} :
          hout' = [previous_summary |-> previous_summary,
                   messages |-> build_validate_messages(previous_summary)]
    /\ UNCHANGED <<runs, last_id, clock>>
    /\ UNCHANGED nonHistVars

\* run_validate_agent, "Save run to history": save_run, then prune(keep=20).
SaveRunToHistory(cluster_context, report) ==
    /\ last_id < MaxRuns
    /\ cluster_context # "kind-kind" => run_count(cluster_context) < MaxOtherRuns
    /\ runs' = prune(runs \cup {NewRow(cluster_context, report, Now)},
                     cluster_context, KEEP)
    /\ last_id' = last_id + 1
    /\ clock' = Now
    /\ hcall' = [op |-> "save_run_to_history", cluster_context |-> cluster_context,
                 report |-> report]
    /\ hout' = [run_id |-> last_id + 1]
    /\ UNCHANGED nonHistVars

InitHistory ==
    /\ runs = {}
    /\ last_id = 0
    /\ clock = 0
    /\ hcall = NoHistoryCall
    /\ hout = NoHistoryResult

\* The store is not used.
NoHistory == InitHistory

NextHistory ==
    \/ \E c \in Contexts, r \in Reports : SaveRun(c, r)
    \/ \E c \in Contexts, keep \in 0..MaxKeep : Prune(c, keep)
    \/ \E c \in Contexts : LastRun(c)
    \/ \E c \in Contexts : LoadPreviousRun(c)

\* The report of a run that reached the turn limit.
TurnLimitReport ==
    ValidationReport("Agent did not complete within the turn limit.", <<>>)

NextRuns ==
    \E c \in Contexts : SaveRunToHistory(c, TurnLimitReport)

(***************************************************************************)
(* scanner.py, analyzer.py: from the manifest files of a repository to the *)
(* Platform.  A file is its path, its size in bytes, what reading and      *)
(* loading it gives ("yaml": its documents; "malformed": yaml.safe_load_all *)
(* raises; "unreadable": read_text raises) and the Kubernetes documents it *)
(* holds; a document is its kind and its metadata.name and                 *)
(* metadata.namespace, None where the key is absent.                       *)
(***************************************************************************)
MaxFiles == 2      \* manifest files in the repository
MaxDocs == 2       \* documents in one manifest file
MaxRendered == 1   \* K8s resources rendered from IaC sources

\* A dict with string keys is the set of its <<key, value>> items.
LabelledDoc(kind, name, namespace, selector, pod_labels) ==
    [kind |-> kind, name |-> name, namespace |-> namespace,
     selector |-> selector, pod_labels |-> pod_labels]

\* A document without spec.selector and without labels on a pod template.
ManifestDoc(kind, name, namespace) == LabelledDoc(kind, name, namespace, {}, {})

ManifestDocs ==
    {ManifestDoc("Deployment", "api", "prod"), ManifestDoc("Service", "api", "prod"),
     ManifestDoc("Deployment", "api", None), ManifestDoc("Deployment", None, None)}

FilePaths == <<"k8s/a.yaml", "k8s/b.yaml", "k8s/c.yaml">>

\* K8sResource.qualified_name
qualified_name(r) == r.namespace \o "/" \o r.kind \o "/" \o r.name

\* _parse_resource: the fields of the resource that identify it.
WORKLOAD_KINDS == {"Deployment", "StatefulSet", "DaemonSet", "Job", "CronJob"}

\* _parse_resource: the fields of the resource that identify it, the selector
\* (spec.selector.matchLabels of a workload, spec.selector of a Service) and,
\* of `raw`, spec.template.metadata.labels.
K8sResource(d, source_file) ==
    [kind |-> d.kind,
     name |-> IF d.name = None THEN "unnamed" ELSE d.name,
     namespace |-> IF d.namespace = None THEN "default" ELSE d.namespace,
     selector |-> IF d.kind \in WORKLOAD_KINDS \cup {"Service"} THEN d.selector ELSE {},
     pod_labels |-> d.pod_labels,
     source_file |-> source_file]

\* dict.get(k): the value of the key, None where the key is absent.
Get(dict, k) ==
    IF \E kv \in dict : kv[1] = k
    THEN (CHOOSE kv \in dict : kv[1] = k)[2]
    ELSE None

\* _labels_match(selector, labels).
labels_match(selector, labels) ==
    IF selector = {} THEN FALSE
    ELSE \A kv \in selector : Get(labels, kv[1]) = kv[2]

is_workload(r) == r.kind \in WORKLOAD_KINDS

ServiceRelationship(source, target, rel_type) ==
    [source |-> source, target |-> target, rel_type |-> rel_type]

\* build_relationships(resources): the edges "selects", in the order of
\* `for svc in services: for wl in workloads`.  No document of the model is an
\* Ingress with a backend or a HorizontalPodAutoscaler, so the two loops
\* after it append nothing.
build_relationships(resources) ==
    LET services == SelectSeq(resources, LAMBDA r : r.kind = "Service")
        workloads == SelectSeq(resources, is_workload)
        W == Len(workloads)
        pairs == [k \in 1..(Len(services) * W) |->
                     [svc |-> services[((k - 1) \div W) + 1],
                      wl |-> workloads[((k - 1) % W) + 1]]]
        selected == SelectSeq(pairs, LAMBDA p :
                        /\ p.svc.selector # {}
                        /\ labels_match(p.svc.selector, p.wl.pod_labels))
    IN  [k \in DOMAIN selected |->
            ServiceRelationship(qualified_name(selected[k].svc),
                                qualified_name(selected[k].wl), "selects")]

MAX_FILE_SIZE_BYTES == 1048576

File(path, size, content, docs) ==
    [path |-> path, size |-> size, content |-> content, docs |-> docs]

\* A variant of discover_manifest_files that also skips a file of exactly the
\* limit.
discover_manifest_files_SkipAtLimit(files) ==
    SelectSeq(files, LAMBDA f : ~(f.size >= MAX_FILE_SIZE_BYTES))

\* discover_manifest_files: the files under the root that match the include
\* patterns, without those over the size limit, sorted by path.  Every file
\* of the model matches the patterns and the files are listed in path order.
discover_manifest_files(files) ==
    SelectSeq(files, LAMBDA f : ~(f.size > MAX_FILE_SIZE_BYTES))

\* parse_manifest_file: one resource per document of the file, in order.  An
\* exception of read_text or safe_load_all is caught and logged inside, and
\* the resources collected so far, none, are returned.
parse_manifest_file(f) ==
    IF f.content # "yaml" THEN <<>>
    ELSE [i \in DOMAIN f.docs |-> K8sResource(f.docs[i], f.path)]

\* all_resources after the first n files of `for mf in manifest_files`.
RECURSIVE ResourcesOfFiles(_, _)
ResourcesOfFiles(files, n) ==
    IF n = 0 THEN <<>>
    ELSE ResourcesOfFiles(files, n - 1) \o parse_manifest_file(files[n])

\* Whether parse_manifest_file(f) raises: its try covers read_text,
\* safe_load_all and _parse_resource, and `except Exception` logs a warning.
ParseRaises(f) == FALSE

ScanError(path, error) == [path |-> path, error |-> error]

\* The errors list after `for mf in manifest_files`: "{rel}: {exc}" for every
\* file where parse_manifest_file raises.
ErrorsOfFiles(files) ==
    SelectSeq([i \in DOMAIN files |-> ScanError(files[i].path, files[i].content)],
              LAMBDA e : \E i \in DOMAIN files : files[i].path = e.path /\ ParseRaises(files[i]))

\* The body of _scan_directory on the discovered files: the resources of every
\* file, then the resources rendered from IaC; scan_iac reports no error of
\* its own in the model.
ScanFiles(manifest_files, rendered) ==
    [all_resources |-> ResourcesOfFiles(manifest_files, Len(manifest_files)) \o rendered,
     file_paths |-> SelectSeq([i \in DOMAIN manifest_files |->
                                  IF parse_manifest_file(manifest_files[i]) # <<>>
                                  THEN manifest_files[i].path
                                  ELSE None],
                              LAMBDA p : p # None),
     errors |-> ErrorsOfFiles(manifest_files)]

\* _scan_directory on a root that is a directory.
scan_directory(files, rendered) == ScanFiles(discover_manifest_files(files), rendered)

\* build_platform(resources, manifest_files, errors).
build_platform(resources, manifest_files, errors) ==
    [resources |-> resources,
     relationships |-> build_relationships(resources),
     namespaces |-> {resources[i].namespace : i \in DOMAIN resources},
     manifest_files |-> manifest_files,
     errors |-> errors]

Repositories ==
    UNION {[1..n -> BoundedSeq(ManifestDocs, MaxDocs)] : n \in 0..MaxFiles}

InitRepo ==
    /\ \E docs \in Repositories :
          repo_files = [i \in DOMAIN docs |-> File(FilePaths[i], 1024, "yaml", docs[i])]
    /\ \E rendered \in BoundedSeq(ManifestDocs, MaxRendered) :
          iac_k8s = [i \in DOMAIN rendered |-> K8sResource(rendered[i], "Chart.yaml")]
    /\ discovered = NoObject
    /\ scanned = NoObject
    /\ built = NoObject

\* Files around the size limit, well-formed or not.
FileSizes == {MAX_FILE_SIZE_BYTES - 1, MAX_FILE_SIZE_BYTES, MAX_FILE_SIZE_BYTES + 1}
FileContents == {"yaml", "malformed", "unreadable"}

FilesAt(path) ==
    {File(path, size, content,
          IF content = "yaml" THEN <<ManifestDoc("Deployment", "api", "prod")>> ELSE <<>>) :
        size \in FileSizes, content \in FileContents}

InitFiles ==
    /\ \E n \in 0..MaxFiles : repo_files \in [1..n -> UNION {FilesAt(FilePaths[i]) : i \in 1..n}]
    /\ \A i \in DOMAIN repo_files : repo_files[i].path = FilePaths[i]
    /\ iac_k8s = <<>>
    /\ discovered = NoObject
    /\ scanned = NoObject
    /\ built = NoObject

\* One manifest file of Services and Deployments named api, in two
\* namespaces, with selectors and pod labels that agree, partly agree or
\* differ.
Selectors == {{}, {<<"app", "api">>}, {<<"app", "api">>, <<"tier", "web">>}}
PodLabels == {{<<"app", "api">>}, {<<"app", "api">>, <<"tier", "web">>}, {<<"app", "db">>}}

LabelledDocs ==
    {LabelledDoc("Service", "api", ns, s, {}) : ns \in {"prod", "dev"}, s \in Selectors} \cup
    {LabelledDoc("Deployment", "api", ns, l, l) : ns \in {"prod", "dev"}, l \in PodLabels}

InitLabelled ==
    /\ \E docs \in BoundedSeq(LabelledDocs, MaxDocs) :
          repo_files = <<File(FilePaths[1], 1024, "yaml", docs)>>
    /\ iac_k8s = <<>>
    /\ discovered = NoObject
    /\ scanned = NoObject
    /\ built = NoObject

\* Nothing is scanned.
NoRepo ==
    /\ repo_files = <<>>
    /\ iac_k8s = <<>>
    /\ discovered = NoObject
    /\ scanned = NoObject
    /\ built = NoObject

DiscoverManifestFiles ==
    /\ discovered = NoObject
    /\ discovered' = [files |-> discover_manifest_files(repo_files)]
    /\ UNCHANGED <<repo_files, iac_k8s, scanned, built>>
    /\ UNCHANGED nonRepoVars

ScanDirectory ==
    /\ scanned = NoObject
    /\ scanned' = scan_directory(repo_files, iac_k8s)
    /\ UNCHANGED <<repo_files, iac_k8s, discovered, built>>
    /\ UNCHANGED nonRepoVars

BuildPlatform ==
    /\ scanned # NoObject
    /\ built = NoObject
    /\ built' = build_platform(scanned.all_resources, scanned.file_paths, scanned.errors)
    /\ UNCHANGED <<repo_files, iac_k8s, discovered, scanned>>
    /\ UNCHANGED nonRepoVars

NextRepo ==
    \/ DiscoverManifestFiles
    \/ ScanDirectory
    \/ BuildPlatform

(***************************************************************************)
(* classifier.py: the workload classifier.                                 *)
(*                                                                         *)
(* classify_image accumulates evidence per profile key and returns the     *)
(* first candidate with the highest sum.  Scores are counted in units of   *)
(* 0.0001 while they are summed, so that round(score, 2) is a rounding and *)
(* not a renaming; a returned score is in hundredths.  The weights are     *)
(* taken as the decimals the source writes.                                *)
(***************************************************************************)
MaxPorts == 2
MaxEnvs == 2

W_IMAGE == 7000
W_PORT == 2500
W_ENV == 1500
W_LABEL == 2000
FALLBACK_SCORE == 10

ARCHETYPE_CUSTOM_APP == "custom-app"

\* The registered profiles the sample inputs can reach: key -> archetype.
PROFILES == [postgresql |-> "database", redis |-> "cache"]

\* The image rules the sample strings can match, in the order of the list,
\* each with the sample strings its pattern finds a match in.
IMAGE_RULES ==
    << [found_in |-> {"postgres:16", "postgres:"}, profile |-> "postgresql"],
       [found_in |-> {"bitnami/redis:7", "redis:"}, profile |-> "redis"] >>

\* Every hinted port and environment name leads to a registered profile, so
\* the branch for a profile that is not registered is never taken.
PORT_HINTS == [p \in {5432, 6379} |-> IF p = 5432 THEN "postgresql" ELSE "redis"]

ENV_HINTS ==
    [e \in {"POSTGRES_PASSWORD", "PGDATA", "REDIS_URL"} |->
        IF e = "REDIS_URL" THEN "redis" ELSE "postgresql"]

Images == {"postgres:16", "bitnami/redis:7", "myapp:1.0"}
Ports == {5432, 6379, 8080}
EnvNames == {"POSTGRES_PASSWORD", "PGDATA", "REDIS_URL", "HOME"}
\* labels.get("app.kubernetes.io/name", ""): "" when the label is absent.
AppNames == {"", "Postgres", "redis", "my-postgres"}

\* str.lower() on the sample label values.
Lower(s) == IF s = "Postgres" THEN "postgres" ELSE s

\* ":" in app_name or "-" in app_name, on the sample label values.
HasSeparator(s) == s = "my-postgres"

\* The first rule whose pattern is found in s; 0 when there is none.
FirstRule(s) ==
    IF \E i \in DOMAIN IMAGE_RULES : s \in IMAGE_RULES[i].found_in
    THEN CHOOSE i \in DOMAIN IMAGE_RULES :
            /\ s \in IMAGE_RULES[i].found_in
            /\ \A j \in 1..(i - 1) : s \notin IMAGE_RULES[j].found_in
    ELSE 0

Evidence(source, detail) == [source |-> source, detail |-> detail]

\* A variant of _add that forgets what a candidate had accumulated.
Add_Overwrite(candidates, key, weight, reason) ==
    IF \E i \in DOMAIN candidates : candidates[i].key = key
    THEN [i \in DOMAIN candidates |->
            IF candidates[i].key = key
            THEN [candidates[i] EXCEPT !.score = weight,
                                       !.evidence = Append(@, reason)]
            ELSE candidates[i]]
    ELSE Append(candidates, [key |-> key, score |-> weight, evidence |-> <<reason>>])

\* _add: the candidates are kept in the insertion order of the dict.
Add(candidates, key, weight, reason) ==
    IF \E i \in DOMAIN candidates : candidates[i].key = key
    THEN [i \in DOMAIN candidates |->
            IF candidates[i].key = key
            THEN [candidates[i] EXCEPT !.score = @ + weight,
                                       !.evidence = Append(@, reason)]
            ELSE candidates[i]]
    ELSE Append(candidates, [key |-> key, score |-> weight, evidence |-> <<reason>>])

AddImage(candidates, image) ==
    IF FirstRule(image) # 0
    THEN Add(candidates, IMAGE_RULES[FirstRule(image)].profile, W_IMAGE,
             Evidence("image", image))
    ELSE candidates

RECURSIVE AddPorts(_, _)
AddPorts(candidates, ports) ==
    IF ports = <<>> THEN candidates
    ELSE AddPorts(IF Head(ports) \in DOMAIN PORT_HINTS
                  THEN Add(candidates, PORT_HINTS[Head(ports)], W_PORT,
                           Evidence("port", ToString(Head(ports))))
                  ELSE candidates,
                  Tail(ports))

RECURSIVE AddEnvs(_, _, _)
AddEnvs(candidates, env_vars, seen_env_profiles) ==
    IF env_vars = <<>> THEN candidates
    ELSE IF Head(env_vars) \in DOMAIN ENV_HINTS
            /\ ENV_HINTS[Head(env_vars)] \notin seen_env_profiles
         THEN AddEnvs(Add(candidates, ENV_HINTS[Head(env_vars)], W_ENV,
                          Evidence("env", Head(env_vars))),
                      Tail(env_vars),
                      seen_env_profiles \cup {ENV_HINTS[Head(env_vars)]})
         ELSE AddEnvs(candidates, Tail(env_vars), seen_env_profiles)

Probe(app_name) == IF HasSeparator(app_name) THEN app_name ELSE app_name \o ":"

AddLabel(candidates, label) ==
    IF Lower(label) # "" /\ FirstRule(Probe(Lower(label))) # 0
    THEN Add(candidates, IMAGE_RULES[FirstRule(Probe(Lower(label)))].profile, W_LABEL,
             Evidence("label", "app.kubernetes.io/name=" \o Lower(label)))
    ELSE candidates

Candidates(image, ports, env_vars, label) ==
    AddLabel(AddEnvs(AddPorts(AddImage(<<>>, image), ports), env_vars, {}), label)

\* max(candidates, key=score): the first of the candidates with the highest sum.
Best(candidates) ==
    candidates[CHOOSE i \in DOMAIN candidates :
                  /\ \A j \in DOMAIN candidates : candidates[j].score <= candidates[i].score
                  /\ \A j \in 1..(i - 1) : candidates[j].score < candidates[i].score]

Min(a, b) == IF a <= b THEN a ELSE b

\* round(score, 2): to the nearest hundredth, a half to the even one.
Round2(score) ==
    IF (score % 100 > 50) \/ (score % 100 = 50 /\ (score \div 100) % 2 = 1)
    THEN (score \div 100) + 1
    ELSE score \div 100

\* A variant of _bucket that needs more than 0.60 for "high".
bucket_StrictHigh(score) ==
    IF score > 6000 THEN "high" ELSE IF score >= 1500 THEN "medium" ELSE "low"

bucket(score) ==
    IF score >= 6000 THEN "high" ELSE IF score >= 1500 THEN "medium" ELSE "low"

MatchSource(primary) ==
    IF primary.source = "image" THEN "image"
    ELSE primary.source \o ":" \o primary.detail

Classification(archetype, profile, confidence, score, match_source, evidence) ==
    [archetype |-> archetype, profile |-> profile, confidence |-> confidence,
     score |-> score, match_source |-> match_source, evidence |-> evidence]

classify_image(image, ports, env_vars, label) ==
    IF Candidates(image, ports, env_vars, label) # <<>>
    THEN LET best == Best(Candidates(image, ports, env_vars, label))
         IN Classification(PROFILES[best.key], best.key,
                           bucket(Min(best.score, 10000)),
                           Round2(Min(best.score, 10000)),
                           MatchSource(best.evidence[1]), best.evidence)
    ELSE Classification(ARCHETYPE_CUSTOM_APP, "", "low", FALLBACK_SCORE, "fallback",
                        <<Evidence("none", "no matching signals")>>)

InitClassify ==
    /\ \E image \in Images, ports \in BoundedSeq(Ports, MaxPorts),
          env_vars \in BoundedSeq(EnvNames, MaxEnvs), label \in AppNames :
          cin = [image |-> image, ports |-> ports, env_vars |-> env_vars, label |-> label]
    /\ cout = NoObject
    /\ cprev = NoObject

\* Nothing is classified.
NoClassify ==
    /\ cin = NoObject
    /\ cout = NoObject
    /\ cprev = NoObject

ClassifyImage ==
    /\ cout = NoObject
    /\ cout' = classify_image(cin.image, cin.ports, cin.env_vars, cin.label)
    /\ UNCHANGED <<cin, cprev>>
    /\ UNCHANGED nonClassVars

\* list.insert(i - 1, x)
InsertAt(seq, i, x) == SubSeq(seq, 1, i - 1) \o <<x>> \o SubSeq(seq, i, Len(seq))

\* The inputs that hold one more piece of evidence than `in`: a further port
\* or environment name at the front or at the end of its list, or the label
\* where `in` has none.
WithMoreEvidence(in) ==
    {[in EXCEPT !.ports = InsertAt(@, i, p)] :
        i \in {1, Len(in.ports) + 1}, p \in Ports}
    \cup {[in EXCEPT !.env_vars = InsertAt(@, i, e)] :
        i \in {1, Len(in.env_vars) + 1}, e \in EnvNames}
    \cup {[in EXCEPT !.label = l] : l \in {l \in AppNames : in.label = "" /\ l # ""}}

\* classify_image is called again for the same container with one more piece
\* of evidence.
ClassifyWithMoreEvidence ==
    /\ cout # NoObject
    /\ cprev = NoObject
    /\ \E more \in WithMoreEvidence(cin) :
          /\ cin' = more
          /\ cout' = classify_image(more.image, more.ports, more.env_vars, more.label)
    /\ cprev' = cout
    /\ UNCHANGED nonClassVars

NextClassify ==
    \/ ClassifyImage
    \/ ClassifyWithMoreEvidence

(***************************************************************************)
(* tools/registry.py: get_workload_insights for one workload with one      *)
(* container.  A requires string is written as the sequence of its         *)
(* comma-separated parts; the empty string, which _check_requires answers  *)
(* before it splits, is <<>>.                                              *)
(***************************************************************************)
MaxSignals == 1

\* The requires strings of the registered profiles: "", "exporter" and
\* "exporter,replicas>1".
RegisteredRequires == {<<>>, <<"exporter">>, <<"exporter", "replicas>1">>}

\* r.strip().lower(); it changes none of the parts of the registered profiles.
StripLower(part) == IF part = " Exporter" THEN "exporter" ELSE part

TelemetryTags == {"exporter:postgres_exporter", "builtin_metrics", "scrape_annotations"}

\* t.startswith("exporter:") or t == "builtin_metrics"
IsExporterTag(t) == t \in {"exporter:postgres_exporter", "builtin_metrics"}

\* wl.replicas is <<>> for None and <<n>> for n; `wl.replicas or 1`.
ReplicasOrOne(replicas) ==
    IF replicas = <<>> \/ replicas[1] = 0 THEN 1 ELSE replicas[1]

check_single_req(req, w) ==
    IF req = "replicas>1" THEN ReplicasOrOne(w.replicas) > 1
    ELSE IF req = "statefulset" THEN w.kind = "StatefulSet"
    ELSE IF req = "exporter" THEN \E t \in w.telemetry : IsExporterTag(t)
    ELSE TRUE

check_requires(requires, w) ==
    IF requires = <<>> THEN TRUE
    ELSE \A i \in DOMAIN requires : check_single_req(StripLower(requires[i]), w)

\* An ArchetypeProfile: the requires of its golden metrics and of its alerts.
\* Every registered profile has at least one alert.  An AlertSignal has the
\* fields name, expr, severity, for_duration, summary and requires.
Profile(golden_metrics, alerts) ==
    [registered |-> TRUE, golden_metrics |-> golden_metrics, alerts |-> alerts]

NoProfile == [registered |-> FALSE, golden_metrics |-> <<>>, alerts |-> <<>>]

RegisteredProfiles ==
    {Profile(g, a) : g \in BoundedSeq(RegisteredRequires, MaxSignals),
                     a \in BoundedSeq(RegisteredRequires, MaxSignals) \ {<<>>}}

SignalLine(list, index, conditional) ==
    [list |-> list, index |-> index, conditional |-> conditional]

InsightsReturned(lines) == [raised |-> FALSE, error |-> None, lines |-> lines]
InsightsRaised(e) == [raised |-> TRUE, error |-> e, lines |-> <<>>]

\* The lines of the golden metrics: `m.requires and not _check_requires(...)`.
GoldenMetricLines(w) ==
    [i \in DOMAIN w.profile.golden_metrics |->
        SignalLine("golden_metrics", i,
                   /\ w.profile.golden_metrics[i] # <<>>
                   /\ ~check_requires(w.profile.golden_metrics[i], w))]

\* The lines of the alerts, as lines 748-757 would write them.
AlertLines(w) ==
    [i \in DOMAIN w.profile.alerts |->
        SignalLine("alerts", i,
                   /\ w.profile.alerts[i] # <<>>
                   /\ ~check_requires(w.profile.alerts[i], w))]

\* _get_workload_insights for the container of w.  The loop over the alerts
\* reads a.nodata_state first, a field an AlertSignal does not have: with one
\* alert or more the call raises AttributeError and returns nothing.
get_workload_insights(w) ==
    IF ~w.profile.registered
    THEN InsightsReturned(<<>>)
    ELSE IF w.profile.alerts # <<>>
    THEN InsightsRaised("AttributeError")
    ELSE InsightsReturned(GoldenMetricLines(w) \o AlertLines(w))

Workloads ==
    [kind : {"Deployment", "StatefulSet"},
     replicas : {<<>>, <<0>>, <<1>>, <<3>>},
     telemetry : SUBSET TelemetryTags,
     profile : RegisteredProfiles \cup {NoProfile}]

InitInsights ==
    /\ wl \in Workloads
    /\ insights = NoObject

\* No workload is asked about.
NoInsights ==
    /\ wl = NoObject
    /\ insights = NoObject

GetWorkloadInsights ==
    /\ insights = NoObject
    /\ insights' = get_workload_insights(wl)
    /\ UNCHANGED wl
    /\ UNCHANGED nonInsightVars

NextInsights ==
    \/ GetWorkloadInsights

(***************************************************************************)
(* The specifications.                                                     *)
(***************************************************************************)
Init == InitDriver /\ NoTools /\ NoScan /\ NoHistory /\ NoRepo /\ NoClassify /\ NoInsights
Next == NextDriver

Spec == Init /\ [][Next]_vars

InitT == NoDriver /\ InitTools /\ NoScan /\ NoHistory /\ NoRepo /\ NoClassify /\ NoInsights
NextT == NextTools

SpecTools == InitT /\ [][NextT]_vars

InitS == NoDriver /\ NoTools /\ InitScan /\ NoHistory /\ NoRepo /\ NoClassify /\ NoInsights
NextS == NextScan

SpecScan == InitS /\ [][NextS]_vars

InitH == NoDriver /\ NoTools /\ NoScan /\ InitHistory /\ NoRepo /\ NoClassify /\ NoInsights
NextH == NextHistory

SpecHistory == InitH /\ [][NextH]_vars

NextR == NextRuns

SpecRuns == InitH /\ [][NextR]_vars

InitP == NoDriver /\ NoTools /\ NoScan /\ NoHistory /\ InitRepo /\ NoClassify /\ NoInsights
NextP == NextRepo

SpecPlatform == InitP /\ [][NextP]_vars

InitF == NoDriver /\ NoTools /\ NoScan /\ NoHistory /\ InitFiles /\ NoClassify /\ NoInsights
NextF == NextRepo

SpecFiles == InitF /\ [][NextF]_vars

InitC == NoDriver /\ NoTools /\ NoScan /\ NoHistory /\ NoRepo /\ InitClassify /\ NoInsights
NextC == NextClassify

SpecClassify == InitC /\ [][NextC]_vars

\* _scan_directory and build_platform on manifests with selectors and labels.
InitL == NoDriver /\ NoTools /\ NoScan /\ NoHistory /\ InitLabelled /\ NoClassify /\ NoInsights
NextL == NextRepo

SpecRelations == InitL /\ [][NextL]_vars

InitI == NoDriver /\ NoTools /\ NoScan /\ NoHistory /\ NoRepo /\ NoClassify /\ InitInsights
NextI == NextInsights

SpecInsights == InitI /\ [][NextI]_vars

(***************************************************************************)
(* Properties of the tools.                                                *)
(***************************************************************************)
ToolApis == {"execute_tool", "LiveToolExecutor.execute"}
ViaLive(name) == call.api = "LiveToolExecutor.execute" /\ call.name = name

\* C1: with allow_writes false no call runs a mutating kubectl command
\* (apply, delete) and the cluster's objects stay as they were; apply_manifest
\* and delete_resource raise PermissionError and run no kubectl at all.
C1_NoWritesWithoutOptIn ==
    ~allow_writes =>
        /\ kubectl \cap MutatingVerbs = {}
        /\ cluster_objects = {"existing"}
        /\ (call.api = "ClusterClient" /\ call.name \in {"apply_manifest", "delete_resource"})
              => (outcome = Raised("PermissionError") /\ kubectl = {})

\* delete_resource was called on a client without allow_writes.
C1_Witness ==
    /\ ~allow_writes
    /\ call.api = "ClusterClient"
    /\ call.name = "delete_resource"
    /\ outcome.raised
    /\ outcome.error = "PermissionError"

\* C3: for every tool name and every tool input, the analyze executor and the
\* live executor return a string; no call of either raises.
C3_ExecutorsNeverRaise ==
    call.api \in ToolApis => ~outcome.raised

\* C4 as stated: executing any tool other than apply_kubernetes_manifest
\* leaves the cluster, Grafana, Prometheus and the Platform unchanged.
C4_OnlyApplyChangesExternalState ==
    [][(call'.api \in ToolApis /\ call'.name # "apply_kubernetes_manifest")
       => UNCHANGED external]_vars

\* C4 amended: executing any tool other than apply_kubernetes_manifest and
\* import_grafana_dashboard leaves the cluster, Grafana, Prometheus and the
\* Platform unchanged; import_grafana_dashboard changes nothing but Grafana's
\* dashboards and folders, apply_kubernetes_manifest nothing but the
\* cluster's objects.
C4_OnlyApplyAndImportChangeExternalState ==
    [][call'.api \in ToolApis =>
         /\ call'.name \notin {"apply_kubernetes_manifest", "import_grafana_dashboard"}
               => UNCHANGED external
         /\ call'.name = "import_grafana_dashboard"
               => UNCHANGED <<cluster_objects, prometheus_series, platform>>
         /\ call'.name = "apply_kubernetes_manifest"
               => UNCHANGED <<grafana_dashboards, grafana_folders,
                              prometheus_series, platform>>]_vars

\* find_monitoring_stack ran, and created a Grafana client, after a manifest
\* was applied and a dashboard imported.
C4_Witness ==
    /\ ViaLive("find_monitoring_stack")
    /\ prometheus = Client
    /\ grafana = Client
    /\ cluster_objects = {"existing", "manifest_yaml"}
    /\ grafana_dashboards = {"dashboard_id"}
    /\ grafana_folders = {"folder_title"}

ValuesOf(f) == {kv[2] : kv \in f.items}

\* The strings of the serialized resource: model_dump leaves `raw` out.
SerializedStrings(r) ==
    {r.api_version, r.name, r.namespace, r.source_file, <<r.kind>>}
    \cup UNION {{kv[1], kv[2]} : kv \in r.labels}
    \cup UNION {{<<kv[1]>>, kv[2]} : kv \in r.annotations}

\* The strings of the retained raw payload.
RawStrings(raw) ==
    {raw.apiVersion, raw.metadata.name, raw.metadata.namespace, <<raw.kind>>}
    \cup UNION {{<<kv[1]>>, kv[2]} : kv \in raw.metadata.annotations}
    \cup UNION {{<<kv[1]>>, kv[2]} : kv \in raw.data.items}
    \cup UNION {{<<kv[1]>>, kv[2]} : kv \in raw.stringData.items}

\* C6: the resource built from a Secret holds no data or stringData value of
\* the document as a substring of any string of its serialized form or of its
\* retained raw payload, and the raw payload keeps the key names of data and
\* stringData, each with the value REDACTED.
C6_NoSecretValueInResource ==
    (res # NoObject /\ doc.kind = "Secret") =>
        /\ \A v \in ValuesOf(doc.data) \cup ValuesOf(doc.stringData) :
              \A str \in SerializedStrings(res) \cup RawStrings(res.raw) :
                 ~Contains(str, v)
        /\ \A f \in {"data", "stringData"} :
              doc[f].shape = "dict" =>
                 res.raw[f].items = {<<kv[1], REDACTED>> : kv \in doc[f].items}

(***************************************************************************)
(* Properties of the drivers.                                              *)
(***************************************************************************)
Stopped == pc \in {"returned", "raised"}

Range(f) == {f[i] : i \in DOMAIN f}

\* The ids of the tool_use blocks of a response of turn t, in emission order.
RECURSIVE ToolUseIdsUpTo(_, _, _)
ToolUseIdsUpTo(content, t, n) ==
    IF n = 0 THEN <<>>
    ELSE ToolUseIdsUpTo(content, t, n - 1) \o
         (IF content[n].type = "tool_use" THEN <<<<t, n>>>> ELSE <<>>)

ToolUseIds(content, t) == ToolUseIdsUpTo(content, t, Len(content))

\* C2: for every max_agent_turns and every sequence of LLM responses and
\* errors, a driver that has stopped (with an API key configured) has
\* returned, and it made at most max_agent_turns + 1 LLM calls, retries of a
\* failed call not counted.
C2_DriverAlwaysReturns ==
    (api_key /\ Stopped) => (pc = "returned" /\ llm_calls <= max_agent_turns + 1)

\* C7: a turn whose response holds tool_use blocks and that runs to its end
\* appends exactly one assistant message, holding every block of the response
\* in order with the tool_use ids, and then exactly one user message holding
\* one tool_result per tool_use block, in emission order and with the id of
\* its block; execute_tool was called once per tool_use block in that order.
C7_TurnAppendsAssistantThenResults ==
    [][(/\ pc = "blocks"
        /\ pc' \in {"llm", "returned"}
        /\ ToolUseIds(response.content, turn) # <<>>)
       => /\ messages' = messages \o
               <<[role |-> "assistant", content |-> Ref("assistant_content", turn)],
                 [role |-> "user", content |-> Ref("tool_results", turn)]>>
          /\ Len(assistant_content) = Len(response.content)
          /\ \A i \in DOMAIN assistant_content :
                /\ assistant_content[i].type = response.content[i].type
                /\ assistant_content[i].type = "tool_use"
                      => /\ assistant_content[i].id = <<turn, i>>
                         /\ assistant_content[i].name = response.content[i].name
                         /\ assistant_content[i].input = response.content[i].input
          /\ [i \in DOMAIN tool_results |-> tool_results[i].tool_use_id]
                = ToolUseIds(response.content, turn)
          /\ \A i \in DOMAIN tool_results : tool_results[i].type = "tool_result"
          /\ executed = ToolUseIds(response.content, turn)]_vars

\* A run that returned at the end of a turn with a text block and a tool_use
\* block, after an earlier turn with two tool_use blocks.
C7_Witness ==
    /\ pc = "returned"
    /\ exit = "completed"
    /\ Len(assistant_content) = 2
    /\ assistant_content[1].type = "text"
    /\ Len(tool_results) = 1
    /\ tool_results[1].tool_use_id = <<2, 2>>
    /\ Len(messages) = 5
    /\ messages[5] = [role |-> "user", content |-> Ref("tool_results", 2)]

\* C8: once the driver has stopped on a response with stop_reason end_turn
\* while a terminal tool input was parsed on that turn or an earlier one, it
\* has returned the parsed plan and made no LLM call after that response.
C8_EndTurnWithPlanReturnsIt ==
    (/\ Stopped
     /\ response.stop_reason = "end_turn"
     /\ plan # NoObject
     /\ plan.parsed)
    => (pc = "returned" /\ result = plan /\ llm_calls = turn)

\* C9: once the driver has stopped on a response with stop_reason end_turn
\* and no tool_use block while no terminal tool input was parsed in the run,
\* it has returned the near-empty plan whose recommendations hold the
\* "Review the agent output" entry, and made no LLM call after that response.
C9_EndTurnWithoutToolsReturnsUnstructured ==
    (/\ Stopped
     /\ response.stop_reason = "end_turn"
     /\ ToolUseIds(response.content, turn) = <<>>
     /\ ~(plan # NoObject /\ plan.parsed))
    => /\ pc = "returned"
       /\ exit = "unstructured"
       /\ result.platform_summary = "Agent did not produce a structured plan."
       /\ "Review the agent output above for recommendations."
             \in Range(result.recommendations)
       /\ llm_calls = turn

\* The second response is a lone text block with end_turn, after a turn whose
\* tool call did not produce a plan.
C9_Witness ==
    /\ pc = "returned"
    /\ exit = "unstructured"
    /\ turn = 2
    /\ llm_calls = 2
    /\ Len(response.content) = 1
    /\ result = UnstructuredPlan
    /\ Len(messages) = 4

\* The strings of the model that say the agent did not complete.
DidNotCompleteTexts == {"Agent did not complete within the turn limit."}

\* C10: a driver that returned at the turn limit without a parsed terminal
\* result returned an object whose recommendations hold a "did not complete"
\* entry.
C10_TurnLimitRecommendsDidNotComplete ==
    (pc = "returned" /\ exit = "turn_limit" /\ ~result.parsed)
    => Range(result.recommendations) \cap DidNotCompleteTexts # {}

\* The waits 2^1, ..., 2^n, in seconds.
Backoff(n) == [k \in 1..n |-> Pow2(k)]

\* The exits of the retry loop after its last attempt failed.
RetryExits == {"retries_exhausted", "connection_error"}

\* C11: while the LLM call of a turn is being attempted, the attempt in
\* progress is the first, second or third, and the driver has waited 2^k
\* seconds after the k-th failed attempt of the turn before it; once the
\* third attempt has failed with a transient error the driver has returned a
\* degraded result, having waited 2 and 4 seconds before the second and third
\* attempts, and no turn after the failed one was started.
C11_ThreeAttemptsWithBackoff ==
    /\ pc = "llm" =>
          /\ attempt \in 1..MAX_RETRIES
          /\ sleeps = Backoff(attempt - 1)
    /\ exit \in RetryExits =>
          /\ pc = "returned"
          /\ attempt = MAX_RETRIES
          /\ SubSeq(sleeps, 1, MAX_RETRIES - 1) = Backoff(MAX_RETRIES - 1)
          /\ result \in {RetriesExhaustedPlan, CouldNotReachPlan}
          /\ ~result.parsed
          /\ llm_calls = turn

\* The second turn's call failed three times (after two waits) and the driver
\* returned the degraded plan of the connection-error branch.
C11_Witness ==
    /\ exit = "connection_error"
    /\ turn = 2
    /\ sleeps = <<2, 4>>
    /\ result = CouldNotReachPlan

\* C12: the step in which the LLM call fails with a permanent API-status
\* error, on whichever turn and attempt, ends the run: the driver returns the
\* degraded "Anthropic API error" result at once, without a wait and without
\* another attempt or turn, and it takes no step after that.
C12_StatusErrorEndsTheRun ==
    [][/\ exit # "status_error"
       /\ exit' = "status_error" =>
             /\ pc = "llm"
             /\ pc' = "returned"
             /\ result' = ApiErrorPlan
             /\ ~result'.parsed
             /\ UNCHANGED <<turn, attempt, sleeps, messages>>
             /\ llm_calls' = turn]_vars

\* The status error came on the second attempt of the second turn.
C12_Witness ==
    /\ exit = "status_error"
    /\ pc = "returned"
    /\ turn = 2
    /\ attempt = 2
    /\ sleeps = <<2>>

\* The tool_use blocks of a response that name a tool that does not exist.
UnknownToolBlocks(content) ==
    {i \in DOMAIN content :
        content[i].type = "tool_use" /\ content[i].name \notin AnalyzeToolNames}

\* C13: processing a tool_use block that names a tool that does not exist
\* raises nothing and appends, under the block's id, a tool result that is
\* the "Unknown tool" error string; and when the blocks of a response holding
\* such a block have all been processed, the turn appends the user message
\* with the tool results to the conversation and the driver goes on to the
\* LLM call of the next turn, unless the turn was the last one allowed or the
\* response ended the run with a parsed plan.
C13_UnknownToolIsAnErrorResult ==
    [][/\ (/\ pc = "blocks"
           /\ idx < Len(response.content)
           /\ NextBlock \in UnknownToolBlocks(response.content))
          => /\ pc' = "blocks"
             /\ exc' = exc
             /\ idx' = NextBlock
             /\ tool_results' =
                   Append(tool_results,
                          [type |-> "tool_result",
                           tool_use_id |-> <<turn, NextBlock>>,
                           content |-> Str("Unknown tool: {tool_name}",
                                           response.content[NextBlock].name, "")])
       /\ (/\ pc = "blocks"
           /\ idx = Len(response.content)
           /\ UnknownToolBlocks(response.content) # {})
          => /\ messages'[Len(messages')] =
                   [role |-> "user", content |-> Ref("tool_results", turn)]
             /\ \A i \in UnknownToolBlocks(response.content) :
                   \E j \in DOMAIN tool_results :
                      /\ tool_results[j].tool_use_id = <<turn, i>>
                      /\ tool_results[j].content.kind = "Unknown tool: {tool_name}"
             /\ \/ pc' = "llm" /\ turn' = turn + 1 /\ attempt' = 1
                \/ /\ turn = max_agent_turns
                   /\ pc' = "returned" /\ exit' = "turn_limit"
                \/ /\ response.stop_reason = "end_turn" /\ plan # NoObject
                   /\ pc' = "returned" /\ exit' = "completed"]_vars

\* The only block of the first response named a tool that does not exist and
\* has been processed: its result is the error string, nothing was raised,
\* and a second turn is allowed.
C13_Witness ==
    /\ pc = "blocks"
    /\ turn = 1
    /\ max_agent_turns >= 2
    /\ response.stop_reason = "tool_use"
    /\ UnknownToolBlocks(response.content) = {1}
    /\ idx = Len(response.content)
    /\ tool_results =
          <<[type |-> "tool_result", tool_use_id |-> <<1, 1>>,
             content |-> Str("Unknown tool: {tool_name}", "nonexistent_tool", "")]>>

(***************************************************************************)
(* Properties of the history store.                                        *)
(***************************************************************************)
SmallerOf(a, b) == IF a < b THEN a ELSE b

\* C14: after every end of a validation run the store holds at most 20 runs
\* of each cluster context; the run just saved is in the store; the rows the
\* step removed all belong to the context of the run and each of them was
\* saved before every row of that context that was kept; no more rows were
\* removed than needed to come down to 20; and the rows of the other
\* contexts are untouched.
C14_RetentionKeepsMostRecentTwenty ==
    [][/\ \A c \in Contexts : Cardinality(RowsOf(runs', c)) <= KEEP
       /\ \E k \in runs' :
             k.id = last_id' /\ k.cluster_context = hcall'.cluster_context
       /\ \A r \in runs \ runs' :
             /\ r.cluster_context = hcall'.cluster_context
             /\ \A k \in RowsOf(runs', r.cluster_context) : r.id < k.id
       /\ Cardinality(RowsOf(runs', hcall'.cluster_context)) =
             SmallerOf(KEEP, run_count(hcall'.cluster_context) + 1)
       /\ \A c \in Contexts \ {hcall'.cluster_context} :
             RowsOf(runs', c) = RunsOf(c)]_vars

\* Twenty-two runs were saved, one of them on the second context: the first
\* context holds its 20 most recent runs, its oldest run is gone, and the
\* run of the second context is still there.
C14_Witness ==
    /\ last_id = 22
    /\ run_count("kind-kind") = KEEP
    /\ run_count("default") = 1
    /\ \A r \in RunsOf("kind-kind") : r.id > 2
    /\ \E r \in RunsOf("default") : r.id = 2

\* The lines of the initial user message built by the last load.
InitialUserContent(out) == out.messages[1].content

HeaderLine == "=== Previous validation run ({run_at}) ==="
FailLine == "  [FAIL] {name}: {message}"

MostRecentlySaved(cluster_context) ==
    IF RunsOf(cluster_context) = {} THEN NoRow
    ELSE CHOOSE r \in RunsOf(cluster_context) :
            \A o \in RunsOf(cluster_context) : o.id <= r.id

\* C17: last_run returns the row most recently saved under its context, None
\* when the store holds no row of the context, and run_count the number of
\* rows of the context; right after save_run the row returned for the
\* context is the one just saved, with the report's summary and checks;
\* prune with keep >= 1 leaves it in place and prune with keep = 0 leaves
\* none; and a save_run or prune under one context changes neither the row
\* returned nor the rows counted for any other context.
C17_LastRunIsLatestOfItsContext ==
    [][/\ hcall'.op = "last_run" =>
             /\ hout'.row = MostRecentlySaved(hcall'.cluster_context)
             /\ hout'.count = Cardinality(RunsOf(hcall'.cluster_context))
             /\ RunsOf(hcall'.cluster_context) = {} <=> hout'.row = NoRow
       /\ hcall'.op = "save_run" =>
             /\ last_run(runs', hcall'.cluster_context) =
                   [id |-> last_id + 1,
                    cluster_context |-> hcall'.cluster_context,
                    run_at |-> clock',
                    cluster_summary |-> hcall'.report.cluster_summary,
                    checks_json |-> hcall'.report.checks]
             /\ Cardinality(RowsOf(runs', hcall'.cluster_context)) =
                   run_count(hcall'.cluster_context) + 1
       /\ hcall'.op = "prune" =>
             /\ last_run(runs', hcall'.cluster_context) =
                   IF hcall'.keep = 0 THEN NoRow
                   ELSE MostRecentlySaved(hcall'.cluster_context)
             /\ Cardinality(RowsOf(runs', hcall'.cluster_context)) =
                   SmallerOf(hcall'.keep, run_count(hcall'.cluster_context))
       /\ hcall'.op \in {"save_run", "prune"} =>
             \A c \in Contexts \ {hcall'.cluster_context} :
                /\ last_run(runs', c) = last_run(runs, c)
                /\ last_run(runs, c) = MostRecentlySaved(c)
                /\ RowsOf(runs', c) = RunsOf(c)]_vars

\* last_run for a context with two runs returned its second run, the row with
\* id 2, while the run saved last of all, id 3, belongs to the other context.
C17_Witness ==
    /\ hcall.op = "last_run"
    /\ hcall.cluster_context = "default"
    /\ hout.row.id = 2
    /\ hout.count = 2
    /\ last_id = 3
    /\ \E r \in RunsOf("kind-kind") : r.id = 3

(***************************************************************************)
(* Properties of the validation driver and its resources.                  *)
(***************************************************************************)
\* C15: once a validation run with an API key has stopped, it has returned a
\* report, and a row with that report's cluster summary and checks is in the
\* history store under a cluster context.
C15_ReturnedReportIsInHistory ==
    (mode = "validate" /\ api_key /\ Stopped)
    => /\ pc = "returned"
       /\ \E r \in runs :
             /\ r.cluster_context \in Contexts
             /\ r.cluster_summary = result.cluster_summary
             /\ r.checks_json = result.checks

\* C18: once a validation run has stopped, no Prometheus or Grafana client
\* that it opened is still open.
C18_ClientsClosedWhenRunEnds ==
    (mode = "validate" /\ Stopped) => open_clients = {}

(***************************************************************************)
(* Properties of the Platform.                                             *)
(***************************************************************************)
\* C19: in a Platform that build_platform returned, no two resources have the
\* same qualified name namespace/Kind/name.
C19_QualifiedNamesAreUnique ==
    built # NoObject =>
       \A i, j \in DOMAIN built.resources :
          qualified_name(built.resources[i]) = qualified_name(built.resources[j])
             => i = j

(***************************************************************************)
(* Properties of the classifier.                                           *)
(***************************************************************************)

\* C20: every Classification classify_image returns, the fallback included,
\* has the bucket of its returned score: "high" exactly when the score is at
\* least 0.60, "medium" exactly when it is at least 0.15 and below 0.60, and
\* "low" exactly when it is below 0.15.
C20_BucketMatchesReturnedScore ==
    cout # NoObject =>
        /\ cout.confidence \in {"high", "medium", "low"}
        /\ cout.confidence = "high" <=> cout.score >= 60
        /\ cout.confidence = "medium" <=> (15 <= cout.score /\ cout.score < 60)
        /\ cout.confidence = "low" <=> cout.score < 15

\* A port, an environment name and a label of one profile, without its image,
\* sum to exactly 0.60 and are returned as "high".
C20_Witness ==
    /\ cout # NoObject
    /\ cout.score = 60
    /\ cout.confidence = "high"
    /\ Len(cout.evidence) = 3
    /\ cout.match_source # "image"

\* C21: classifying the same input with one more port, environment name or
\* label never returns a lower score than before, and no returned score
\* exceeds 1.0.
C21_MoreEvidenceNeverLowersTheScore ==
    /\ cout # NoObject => cout.score <= 100
    /\ cprev # NoObject => cout.score >= cprev.score

\* An image with its port and environment name already sits at the cap; the
\* label of the same profile is added and the score stays 1.0.
C21_Witness ==
    /\ cprev # NoObject
    /\ cprev.score = 100
    /\ cout.score = 100
    /\ cout.profile = cprev.profile
    /\ Len(cout.evidence) = Len(cprev.evidence) + 1

(***************************************************************************)
(* Properties of the workload insights.                                    *)
(***************************************************************************)

\* C22: for a workload whose container has a profile, get_workload_insights
\* returns a line for every golden metric and every alert of the profile, and
\* the line is marked CONDITIONAL exactly when some part of the signal's
\* requires is unmet by the workload.
C22_ConditionalIffRequiresUnmet ==
    (insights # NoObject /\ wl.profile.registered) =>
        /\ ~insights.raised
        /\ \A i \in DOMAIN wl.profile.golden_metrics :
              SignalLine("golden_metrics", i,
                         ~check_requires(wl.profile.golden_metrics[i], wl))
                  \in Range(insights.lines)
        /\ \A i \in DOMAIN wl.profile.alerts :
              SignalLine("alerts", i, ~check_requires(wl.profile.alerts[i], wl))
                  \in Range(insights.lines)

(***************************************************************************)
(* Properties of the repository scan.                                      *)
(***************************************************************************)

\* C23: every discovered manifest file that cannot be read or parsed has an
\* entry in the errors of the Platform built from the scan, and the resources
\* of the other files are in the Platform.
C23_UnparsableFileIsRecordedInErrors ==
    built # NoObject =>
        \A i \in DOMAIN repo_files :
            IF repo_files[i].size > MAX_FILE_SIZE_BYTES THEN TRUE
            ELSE IF repo_files[i].content # "yaml"
            THEN \E e \in DOMAIN built.errors : built.errors[e].path = repo_files[i].path
            ELSE \E r \in DOMAIN built.resources :
                    built.resources[r].source_file = repo_files[i].path

\* C24 (as the code has it): discover_manifest_files returns exactly the files
\* whose size is at most 1 MiB (1,048,576 bytes); a file is skipped when its
\* size is greater than 1 MiB, and a file of exactly 1 MiB is returned.
C24_FilesOverOneMiBAreSkipped ==
    discovered # NoObject =>
        \A i \in DOMAIN repo_files :
            repo_files[i] \in Range(discovered.files)
                <=> repo_files[i].size <= MAX_FILE_SIZE_BYTES

\* A file of exactly 1 MiB was returned and a file of one byte more was not.
C24_Witness ==
    /\ discovered # NoObject
    /\ \E i \in DOMAIN repo_files :
          /\ repo_files[i].size = MAX_FILE_SIZE_BYTES
          /\ repo_files[i] \in Range(discovered.files)
    /\ \E i \in DOMAIN repo_files :
          /\ repo_files[i].size = MAX_FILE_SIZE_BYTES + 1
          /\ repo_files[i] \notin Range(discovered.files)

\* C24 as stated: no file of 1 MiB or more is returned by the discovery.
C24_FilesOfOneMiBOrMoreAreSkipped ==
    discovered # NoObject =>
        \A i \in DOMAIN discovered.files :
            ~(discovered.files[i].size >= MAX_FILE_SIZE_BYTES)

(***************************************************************************)
(* Properties of the routing of tool calls.                                *)
(***************************************************************************)

\* C25: a tool_use block whose name is not a live tool name is answered by
\* the analyze executor: its result is what execute_tool returns for that name
\* and input, the "Unknown tool" sentence for a name no executor knows.
C25_OtherNamesGoToTheAnalyzeExecutor ==
    call.api = "run_validate_agent" =>
        /\ call.name \notin LiveToolNames
        /\ outcome = execute_tool(call.name, call.input)

\* A tool result that tells the LLM that something went wrong: neither the
\* output of a tool nor the echo of the input.
IsErrorString(s) == s.kind \notin {"text", "json.dumps(tool_input)"}

PrometheusTools == {"check_scrape_targets", "validate_metric_exists", "run_promql_query",
                    "get_prometheus_alerts", "get_prometheus_rules"}
GrafanaTools == {"list_grafana_dashboards", "check_grafana_datasources",
                 "import_grafana_dashboard"}

\* The result of a handler that raised "... client is not configured."
NotConfigured(name) == Returned(Str("Tool '{tool_name}' error: {exc}", name, "RuntimeError"))

FoundTheStack ==
    /\ call'.api = "LiveToolExecutor.execute"
    /\ call'.name = "find_monitoring_stack"
    /\ outcome' = Text("find_monitoring_stack")

C28_SelectsOnlyWithinANamespace ==
    built # NoObject =>
        \A k \in DOMAIN built.relationships :
            built.relationships[k].rel_type = "selects" =>
                \E i, j \in DOMAIN built.resources :
                    LET svc == built.resources[i]
                        workload == built.resources[j]
                    IN  /\ qualified_name(svc) = built.relationships[k].source
                        /\ qualified_name(workload) = built.relationships[k].target
                        /\ svc.kind = "Service"
                        /\ is_workload(workload)
                        /\ labels_match(svc.selector, workload.pod_labels)
                        /\ svc.namespace = workload.namespace

(***************************************************************************)
(* Properties of the conversation sent to the LLM.                         *)
(***************************************************************************)
Alternates(msgs) ==
    /\ msgs # <<>>
    /\ \A i \in DOMAIN msgs :
          msgs[i].role = IF i % 2 = 1 THEN "user" ELSE "assistant"
    /\ msgs[Len(msgs)].role = "user"

\* C29: whenever client.messages.create is about to be called, the
\* conversation passed to it starts with a user message, alternates user and
\* assistant, and ends with a user message.
C29_EveryCallGetsAnAlternatingConversation ==
    pc = "llm" => Alternates(messages)

====
